---------------------------- MODULE Spec2Model ----------------------------
(***************************************************************************)
(* Model of the ATAS voice-assistant middleware pipeline                   *)
(* (agent.py, android_control_middleware.py, language_middleware.py,       *)
(* tts_sync_middleware.py).  Texts are TLA+ strings handled character by   *)
(* character, the way the Python string and re operations handle them.     *)
(***************************************************************************)
EXTENDS Integers, Sequences, FiniteSets, TLC

(***************************************************************************)
(* Python values                                                           *)
(***************************************************************************)
\* Python's None; a string no utterance contains, so it compares with texts.
None == "~None~"

(***************************************************************************)
(* str operations                                                          *)
(***************************************************************************)
UpperChars == "ABCDEFGHIJKLMNOPQRSTUVWXYZ"
LowerChars == "abcdefghijklmnopqrstuvwxyz"
DigitChars == "0123456789"

CharsOf(s) == {SubSeq(s, i, i) : i \in 1..Len(s)}

UpperSet == CharsOf(UpperChars)
LowerSet == CharsOf(LowerChars)
DigitSet == CharsOf(DigitChars)
\* str.isspace() characters that occur in the modelled utterances
SpaceSet == {" "}
\* the class \w of re (ASCII part)
WordSet == UpperSet \cup LowerSet \cup DigitSet \cup {"_"}

\* one character of str.lower()
LowerChar(c) ==
  IF c \in UpperSet
    THEN LET i == CHOOSE j \in 1..26 : SubSeq(UpperChars, j, j) = c
         IN  SubSeq(LowerChars, i, i)
    ELSE c

\* one character of str.upper()
UpperChar(c) ==
  IF c \in LowerSet
    THEN LET i == CHOOSE j \in 1..26 : SubSeq(LowerChars, j, j) = c
         IN  SubSeq(UpperChars, i, i)
    ELSE c

RECURSIVE LowerRange(_, _, _)
\* str.lower() of s[a..b], built by halves to keep the evaluation shallow
LowerRange(s, a, b) ==
  IF a > b THEN ""
  ELSE IF a = b THEN LowerChar(SubSeq(s, a, a))
  ELSE LET m == (a + b) \div 2
       IN  LowerRange(s, a, m) \o LowerRange(s, m + 1, b)

\* str.lower()
Lower(s) == LowerRange(s, 1, Len(s))

IsCased(c) == c \in UpperSet \cup LowerSet

\* character i of str.title(): a cased character is upper-cased after an
\* uncased one (or at the start) and lower-cased after a cased one
TitleChar(s, i) ==
  LET c == SubSeq(s, i, i)
  IN  IF ~IsCased(c) THEN c
      ELSE IF i > 1 /\ IsCased(SubSeq(s, i - 1, i - 1)) THEN LowerChar(c)
      ELSE UpperChar(c)

RECURSIVE TitleRange(_, _, _)
TitleRange(s, a, b) ==
  IF a > b THEN ""
  ELSE IF a = b THEN TitleChar(s, a)
  ELSE LET m == (a + b) \div 2
       IN  TitleRange(s, a, m) \o TitleRange(s, m + 1, b)

\* str.title()
Title(s) == TitleRange(s, 1, Len(s))

SetMin(S) == CHOOSE x \in S : \A y \in S : x <= y
SetMax(S) == CHOOSE x \in S : \A y \in S : x >= y

\* the positions of s that hold a non-space character
NonSpaceAt(s) == {i \in 1..Len(s) : SubSeq(s, i, i) \notin SpaceSet}

\* not s.strip(): s holds spaces only
Blank(s) == \A i \in 1..Len(s) : SubSeq(s, i, i) \in SpaceSet

\* str.strip(): from the first to the last non-space character
Strip(s) ==
  LET n     == Len(s)
      Sp(i) == SubSeq(s, i, i) \in SpaceSet
  IN  IF Blank(s) THEN ""
      ELSE LET a == CHOOSE i \in 1..n : ~Sp(i) /\ \A j \in 1..(i - 1) : Sp(j)
               k == CHOOSE i \in 0..(n - 1) :
                      ~Sp(n - i) /\ \A j \in 0..(i - 1) : Sp(n - j)
           IN  IF a = 1 /\ k = 0 THEN s ELSE SubSeq(s, a, n - k)

\* s[pos:pos+len(k)] == k
HasAt(s, pos, k) ==
  /\ pos + Len(k) - 1 <= Len(s)
  /\ SubSeq(s, pos, pos + Len(k) - 1) = k

\* k in s
Contains(s, k) == \E i \in 1..(Len(s) - Len(k) + 1) : HasAt(s, i, k)

\* k in s.lower(), for a lower-case k
ContainsLower(s, k) ==
  \E i \in 1..(Len(s) - Len(k) + 1) :
    \A j \in 1..Len(k) :
      LowerChar(SubSeq(s, i + j - 1, i + j - 1)) = SubSeq(k, j, j)

\* a.lower() == b.lower()
EqualLower(a, b) == a = b \/ (Len(a) = Len(b) /\ Lower(a) = Lower(b))

\* any(k in s for k in ks), ks a sequence
ContainsAny(s, ks) == \E j \in 1..Len(ks) : Contains(s, ks[j])

\* str.endswith
EndsWith(s, k) == Len(s) >= Len(k) /\ HasAt(s, Len(s) - Len(k) + 1, k)

\* str.startswith
StartsWith(s, k) == HasAt(s, 1, k)

\* len(s.split()) >= 2: a word starts after a space that follows a word
MultiWord(s) ==
  \E i \in 2..Len(s) :
    /\ SubSeq(s, i, i) \notin SpaceSet
    /\ SubSeq(s, i - 1, i - 1) \in SpaceSet
    /\ \E j \in 1..(i - 1) : SubSeq(s, j, j) \notin SpaceSet

\* len(s.split()): the number of positions where a word starts
WordCount(s) ==
  Cardinality({i \in NonSpaceAt(s) :
                 i = 1 \/ SubSeq(s, i - 1, i - 1) \in SpaceSet})

(***************************************************************************)
(* re: the constructs the program's patterns use.  A pattern is a sequence *)
(* of elements:                                                            *)
(*   lit  s   literal text, compared case-insensitively                    *)
(*   word     (\w+)    any      (.+)     lazy  (.+?)                       *)
(*   nsp      (\S+)    dig      (\d+)                                      *)
(*   alt  o   (a|b|c), alternatives tried in order                         *)
(*   nalt o   (?:a|b|c)                                                    *)
(*   optg s   (s)?     group is None when it took no part in the match     *)
(*   optc s   s?       for one character s                                 *)
(*   optlast  (last \d+ )?                                                 *)
(* t is the searched text, lt its lower-cased copy (re.IGNORECASE).        *)
(***************************************************************************)
Fail == [ok |-> FALSE]

InClass(kind, c) ==
  CASE kind = "word" -> c \in WordSet
    [] kind = "dig"  -> c \in DigitSet
    [] kind = "nsp"  -> c \notin SpaceSet
    [] OTHER         -> TRUE

\* the number of consecutive characters of the class from position pos on
RunLen(kind, lt, pos) ==
  LET stop == {i \in pos..Len(lt) : ~InClass(kind, SubSeq(lt, i, i))}
  IN  IF pos > Len(lt) THEN 0
      ELSE IF stop = {} THEN Len(lt) - pos + 1
      ELSE SetMin(stop) - pos

RECURSIVE MatchAt(_, _, _, _, _)
RECURSIVE Repeat(_, _, _, _, _, _, _)
RECURSIVE AltTry(_, _, _, _, _, _)

\* a capturing repetition of 1..mx characters: of the lengths with which
\* the rest of the pattern matches, the longest (greedy) or the shortest (lazy)
Repeat(pat, k, t, lt, pos, mx, greedy) ==
  LET fits == {n \in 1..mx : MatchAt(pat, k + 1, t, lt, pos + n).ok}
      n    == IF greedy THEN SetMax(fits) ELSE SetMin(fits)
      r    == MatchAt(pat, k + 1, t, lt, pos + n)
  IN  IF fits = {} THEN Fail
      ELSE [ok |-> TRUE, g |-> <<SubSeq(t, pos, pos + n - 1)>> \o r.g,
            e |-> r.e]

\* an alternation: the first alternative with which the rest matches
AltTry(pat, k, t, lt, pos, j) ==
  IF j > Len(pat[k].o) THEN Fail
  ELSE LET a == pat[k].o[j]
           r == IF HasAt(lt, pos, a)
                  THEN MatchAt(pat, k + 1, t, lt, pos + Len(a))
                  ELSE Fail
       IN  IF r.ok
             THEN [ok |-> TRUE,
                   g  |-> (IF pat[k].k = "alt"
                             THEN <<SubSeq(t, pos, pos + Len(a) - 1)>>
                             ELSE <<>>) \o r.g,
                   e  |-> r.e]
             ELSE AltTry(pat, k, t, lt, pos, j + 1)

\* re.match of the elements k.. of pat at position pos
MatchAt(pat, k, t, lt, pos) ==
  IF k > Len(pat) THEN [ok |-> TRUE, g |-> <<>>, e |-> pos]
  ELSE LET el == pat[k] IN
    CASE el.k = "lit" ->
           IF HasAt(lt, pos, el.s)
             THEN MatchAt(pat, k + 1, t, lt, pos + Len(el.s))
             ELSE Fail
      [] el.k \in {"word", "any", "nsp", "dig"} ->
           Repeat(pat, k, t, lt, pos, RunLen(el.k, lt, pos), TRUE)
      [] el.k = "lazy" ->
           Repeat(pat, k, t, lt, pos, RunLen(el.k, lt, pos), FALSE)
      [] el.k \in {"alt", "nalt"} ->
           AltTry(pat, k, t, lt, pos, 1)
      [] el.k = "optg" ->
           LET with == IF HasAt(lt, pos, el.s)
                         THEN MatchAt(pat, k + 1, t, lt, pos + Len(el.s))
                         ELSE Fail
               without == MatchAt(pat, k + 1, t, lt, pos)
           IN  IF with.ok
                 THEN [ok |-> TRUE,
                       g  |-> <<SubSeq(t, pos, pos + Len(el.s) - 1)>> \o with.g,
                       e  |-> with.e]
                 ELSE IF without.ok
                   THEN [ok |-> TRUE, g |-> <<None>> \o without.g,
                         e |-> without.e]
                   ELSE Fail
      [] el.k = "optc" ->
           LET with == IF HasAt(lt, pos, el.s)
                         THEN MatchAt(pat, k + 1, t, lt, pos + Len(el.s))
                         ELSE Fail
           IN  IF with.ok THEN with ELSE MatchAt(pat, k + 1, t, lt, pos)
      [] el.k = "optlast" ->
           LET d == RunLen("dig", lt, pos + 5)
               n == 5 + d + 1
               with == IF HasAt(lt, pos, "last ") /\ d >= 1
                          /\ HasAt(lt, pos + 5 + d, " ")
                         THEN MatchAt(pat, k + 1, t, lt, pos + n)
                         ELSE Fail
               without == MatchAt(pat, k + 1, t, lt, pos)
           IN  IF with.ok
                 THEN [ok |-> TRUE,
                       g  |-> <<SubSeq(t, pos, pos + n - 1)>> \o with.g,
                       e  |-> with.e]
                 ELSE IF without.ok
                   THEN [ok |-> TRUE, g |-> <<None>> \o without.g,
                         e |-> without.e]
                   ELSE Fail

\* the positions of each character of lt
CharIndex(lt) ==
  [c \in CharsOf(lt) |-> {i \in 1..Len(lt) : SubSeq(lt, i, i) = c}]

\* the characters a match of pat can start with; {} when it can start
\* with any character
FirstChars(pat) ==
  CASE pat[1].k = "lit" -> {SubSeq(pat[1].s, 1, 1)}
    [] pat[1].k \in {"alt", "nalt"} ->
         {SubSeq(pat[1].o[j], 1, 1) : j \in 1..Len(pat[1].o)}
    [] OTHER -> {}

\* the leftmost match of pat in t, with its groups; lt is t lower-cased and
\* ix its CharIndex.  Only the positions that hold a possible first
\* character are tried: a match starts nowhere else.
SearchL(pat, t, lt, ix) ==
  LET fc     == FirstChars(pat)
      cand   == IF fc = {} THEN 1..(Len(lt) + 1)
                ELSE UNION {ix[c] : c \in fc \cap DOMAIN ix}
      starts == {i \in cand : MatchAt(pat, 1, t, lt, i).ok}
  IN  IF starts = {} THEN Fail ELSE MatchAt(pat, 1, t, lt, SetMin(starts))

\* re.search(pat, t, re.IGNORECASE)
Search(pat, t) == SearchL(pat, t, Lower(t), CharIndex(Lower(t)))

(***************************************************************************)
(* android_control_middleware.py                                           *)
(***************************************************************************)
\* The dict COMMAND_PATTERNS in iteration order: a key declared twice
\* ('whatsapp_view_profile') keeps the position of its first declaration.
COMMAND_PATTERNS ==
  <<
    [name |-> "open_app", pattern |-> <<[k |-> "lit", s |-> "open "], [k |-> "word"]>>],
    [name |-> "close_app", pattern |-> <<[k |-> "lit", s |-> "close "], [k |-> "word"]>>],
    [name |-> "open_whatsapp", pattern |-> <<[k |-> "lit", s |-> "open whatsapp"]>>],
    [name |-> "close_whatsapp", pattern |-> <<[k |-> "lit", s |-> "close whatsapp"]>>],
    [name |-> "whatsapp_scroll_up", pattern |-> <<[k |-> "lit", s |-> "scroll up in whatsapp"]>>],
    [name |-> "whatsapp_scroll_down", pattern |-> <<[k |-> "lit", s |-> "scroll down in whatsapp"]>>],
    [name |-> "whatsapp_chat_with", pattern |-> <<[k |-> "lit", s |-> "chat with "], [k |-> "any"], [k |-> "lit", s |-> " in whatsapp"]>>],
    [name |-> "whatsapp_view_status", pattern |-> <<[k |-> "lit", s |-> "view "], [k |-> "any"], [k |-> "lit", s |-> " status in whatsapp"]>>],
    [name |-> "whatsapp_send_message", pattern |-> <<[k |-> "lit", s |-> "send "], [k |-> "any"], [k |-> "lit", s |-> " to "], [k |-> "any"], [k |-> "lit", s |-> " in whatsapp"]>>],
    [name |-> "whatsapp_call_contact", pattern |-> <<[k |-> "lit", s |-> "call "], [k |-> "any"], [k |-> "lit", s |-> " on whatsapp"]>>],
    [name |-> "whatsapp_video_call", pattern |-> <<[k |-> "lit", s |-> "video call "], [k |-> "any"], [k |-> "lit", s |-> " on whatsapp"]>>],
    [name |-> "whatsapp_view_profile", pattern |-> <<[k |-> "lit", s |-> "view "], [k |-> "any"], [k |-> "lit", s |-> " profile in whatsapp"]>>],
    [name |-> "whatsapp_create_group", pattern |-> <<[k |-> "lit", s |-> "create group "], [k |-> "any"], [k |-> "lit", s |-> " in whatsapp"]>>],
    [name |-> "whatsapp_add_to_group", pattern |-> <<[k |-> "lit", s |-> "add "], [k |-> "any"], [k |-> "lit", s |-> " to group in whatsapp"]>>],
    [name |-> "whatsapp_summarize_chat", pattern |-> <<[k |-> "lit", s |-> "summarize "], [k |-> "optlast"], [k |-> "lit", s |-> "message"], [k |-> "optc", s |-> "s"], [k |-> "lit", s |-> " with "], [k |-> "any"], [k |-> "lit", s |-> " in whatsapp"]>>],
    [name |-> "whatsapp_mute_chat", pattern |-> <<[k |-> "lit", s |-> "mute "], [k |-> "any"], [k |-> "lit", s |-> " chat in whatsapp"]>>],
    [name |-> "whatsapp_unmute_chat", pattern |-> <<[k |-> "lit", s |-> "unmute "], [k |-> "any"], [k |-> "lit", s |-> " chat in whatsapp"]>>],
    [name |-> "open_snapchat", pattern |-> <<[k |-> "lit", s |-> "open snapchat"]>>],
    [name |-> "close_snapchat", pattern |-> <<[k |-> "lit", s |-> "close snapchat"]>>],
    [name |-> "snapchat_view_stories", pattern |-> <<[k |-> "lit", s |-> "view stories in snapchat"]>>],
    [name |-> "snapchat_send_snap", pattern |-> <<[k |-> "lit", s |-> "send snap to "], [k |-> "any"], [k |-> "lit", s |-> " in snapchat"]>>],
    [name |-> "snapchat_chat_with", pattern |-> <<[k |-> "lit", s |-> "chat with "], [k |-> "any"], [k |-> "lit", s |-> " in snapchat"]>>],
    [name |-> "snapchat_add_friend", pattern |-> <<[k |-> "lit", s |-> "add "], [k |-> "any"], [k |-> "lit", s |-> " as friend in snapchat"]>>],
    [name |-> "snapchat_view_profile", pattern |-> <<[k |-> "lit", s |-> "view "], [k |-> "any"], [k |-> "lit", s |-> " profile in snapchat"]>>],
    [name |-> "open_instagram", pattern |-> <<[k |-> "lit", s |-> "open instagram"]>>],
    [name |-> "close_instagram", pattern |-> <<[k |-> "lit", s |-> "close instagram"]>>],
    [name |-> "instagram_scroll_feed", pattern |-> <<[k |-> "lit", s |-> "scroll feed in instagram"]>>],
    [name |-> "instagram_like_post", pattern |-> <<[k |-> "lit", s |-> "like post in instagram"]>>],
    [name |-> "instagram_comment", pattern |-> <<[k |-> "lit", s |-> "comment "], [k |-> "any"], [k |-> "lit", s |-> " on post in instagram"]>>],
    [name |-> "instagram_follow_user", pattern |-> <<[k |-> "lit", s |-> "follow "], [k |-> "any"], [k |-> "lit", s |-> " on instagram"]>>],
    [name |-> "instagram_unfollow_user", pattern |-> <<[k |-> "lit", s |-> "unfollow "], [k |-> "any"], [k |-> "lit", s |-> " on instagram"]>>],
    [name |-> "instagram_view_story", pattern |-> <<[k |-> "lit", s |-> "view "], [k |-> "any"], [k |-> "lit", s |-> " story in instagram"]>>],
    [name |-> "instagram_send_dm", pattern |-> <<[k |-> "lit", s |-> "send "], [k |-> "any"], [k |-> "lit", s |-> " to "], [k |-> "any"], [k |-> "lit", s |-> " in instagram"]>>],
    [name |-> "open_facebook", pattern |-> <<[k |-> "lit", s |-> "open facebook"]>>],
    [name |-> "close_facebook", pattern |-> <<[k |-> "lit", s |-> "close facebook"]>>],
    [name |-> "facebook_scroll_feed", pattern |-> <<[k |-> "lit", s |-> "scroll feed in facebook"]>>],
    [name |-> "facebook_like_post", pattern |-> <<[k |-> "lit", s |-> "like post in facebook"]>>],
    [name |-> "facebook_comment", pattern |-> <<[k |-> "lit", s |-> "comment "], [k |-> "any"], [k |-> "lit", s |-> " on post in facebook"]>>],
    [name |-> "facebook_share_post", pattern |-> <<[k |-> "lit", s |-> "share post in facebook"]>>],
    [name |-> "search_youtube", pattern |-> <<[k |-> "lit", s |-> "search "], [k |-> "any"], [k |-> "lit", s |-> " on youtube"]>>],
    [name |-> "play_youtube", pattern |-> <<[k |-> "lit", s |-> "play "], [k |-> "any"], [k |-> "lit", s |-> " on youtube"]>>],
    [name |-> "youtube_subscribe", pattern |-> <<[k |-> "lit", s |-> "subscribe to "], [k |-> "any"], [k |-> "lit", s |-> " on youtube"]>>],
    [name |-> "youtube_like_video", pattern |-> <<[k |-> "lit", s |-> "like video on youtube"]>>],
    [name |-> "youtube_comment", pattern |-> <<[k |-> "lit", s |-> "comment "], [k |-> "any"], [k |-> "lit", s |-> " on video"]>>],
    [name |-> "youtube_share_video", pattern |-> <<[k |-> "lit", s |-> "share video on youtube"]>>],
    [name |-> "set_volume", pattern |-> <<[k |-> "alt", o |-> <<"up", "down", "low", "raise", "mute", "max", "increase", "decrease">>], [k |-> "lit", s |-> " "], [k |-> "optg", s |-> "the "], [k |-> "lit", s |-> "volume"]>>],
    [name |-> "set_brightness", pattern |-> <<[k |-> "alt", o |-> <<"set", "turn", "low", "raise", "increase", "decrease">>], [k |-> "lit", s |-> " brightness"], [k |-> "optg", s |-> " to"], [k |-> "lit", s |-> " "], [k |-> "dig"], [k |-> "lit", s |-> "%"]>>],
    [name |-> "toggle_wifi", pattern |-> <<[k |-> "alt", o |-> <<"turn on", "turn off", "enable", "disable">>], [k |-> "lit", s |-> " wifi"]>>],
    [name |-> "toggle_bluetooth", pattern |-> <<[k |-> "alt", o |-> <<"turn on", "turn off", "enable", "disable">>], [k |-> "lit", s |-> " bluetooth"]>>],
    [name |-> "take_screenshot", pattern |-> <<[k |-> "alt", o |-> <<"take", "capture">>], [k |-> "lit", s |-> " "], [k |-> "optg", s |-> "a "], [k |-> "lit", s |-> "screenshot"]>>],
    [name |-> "lock_device", pattern |-> <<[k |-> "lit", s |-> "lock "], [k |-> "optg", s |-> "the "], [k |-> "lit", s |-> "device"]>>],
    [name |-> "unlock_device", pattern |-> <<[k |-> "lit", s |-> "unlock "], [k |-> "optg", s |-> "the "], [k |-> "lit", s |-> "device"]>>],
    [name |-> "scroll_feed", pattern |-> <<[k |-> "lit", s |-> "scroll "], [k |-> "alt", o |-> <<"feed", "messages", "whatsapp", "facebook", "instagram", "shopping app", "chrome", "contacts", "gallery", "settings", "notifications">>]>>],
    [name |-> "send_message", pattern |-> <<[k |-> "lit", s |-> "send message to "], [k |-> "any"]>>],
    [name |-> "open_camera", pattern |-> <<[k |-> "lit", s |-> "open camera"]>>],
    [name |-> "close_camera", pattern |-> <<[k |-> "lit", s |-> "close camera"]>>],
    [name |-> "open_gallery", pattern |-> <<[k |-> "lit", s |-> "open gallery"]>>],
    [name |-> "open_contacts", pattern |-> <<[k |-> "lit", s |-> "open contacts"]>>],
    [name |-> "call_contact", pattern |-> <<[k |-> "alt", o |-> <<"call", "dial">>], [k |-> "lit", s |-> " "], [k |-> "any"]>>],
    [name |-> "open_browser", pattern |-> <<[k |-> "lit", s |-> "open "], [k |-> "alt", o |-> <<"chrome", "browser", "firefox", "edge", "opera">>]>>],
    [name |-> "search_browser", pattern |-> <<[k |-> "lit", s |-> "search "], [k |-> "any"], [k |-> "lit", s |-> " in "], [k |-> "alt", o |-> <<"chrome", "browser", "firefox", "edge", "opera">>]>>],
    [name |-> "visit_website", pattern |-> <<[k |-> "lit", s |-> "visit "], [k |-> "any"], [k |-> "lit", s |-> " in "], [k |-> "alt", o |-> <<"chrome", "browser", "firefox", "edge", "opera">>]>>],
    [name |-> "open_tiktok", pattern |-> <<[k |-> "lit", s |-> "open tiktok"]>>],
    [name |-> "open_twitter", pattern |-> <<[k |-> "lit", s |-> "open twitter"]>>],
    [name |-> "open_linkedin", pattern |-> <<[k |-> "lit", s |-> "open linkedin"]>>],
    [name |-> "open_telegram", pattern |-> <<[k |-> "lit", s |-> "open telegram"]>>],
    [name |-> "open_discord", pattern |-> <<[k |-> "lit", s |-> "open discord"]>>],
    [name |-> "open_zoom", pattern |-> <<[k |-> "lit", s |-> "open zoom"]>>],
    [name |-> "open_teams", pattern |-> <<[k |-> "lit", s |-> "open teams"]>>]
  >>


RECURSIVE DetectFrom(_, _, _, _)
\* the loop of detect_command from catalog entry i on
DetectFrom(t, lt, ix, i) ==
  IF i > Len(COMMAND_PATTERNS) THEN [cmd |-> None, args |-> None]
  ELSE LET r == SearchL(COMMAND_PATTERNS[i].pattern, t, lt, ix)
       IN  IF r.ok THEN [cmd |-> COMMAND_PATTERNS[i].name, args |-> r.g]
           ELSE DetectFrom(t, lt, ix, i + 1)

\* a variant of detect_command in which the pattern declared last wins
detect_command_last(text) ==
  LET lt == Lower(text)
      ix == CharIndex(lt)
      m == {i \in 1..Len(COMMAND_PATTERNS) :
              SearchL(COMMAND_PATTERNS[i].pattern, text, lt, ix).ok}
  IN  IF m = {} THEN [cmd |-> None, args |-> None]
      ELSE [cmd |-> COMMAND_PATTERNS[SetMax(m)].name,
            args |-> SearchL(COMMAND_PATTERNS[SetMax(m)].pattern, text, lt, ix).g]

\* AndroidControlMiddleware.detect_command
detect_command(text) ==
  LET lt == Lower(text) IN DetectFrom(text, lt, CharIndex(lt), 1)


(***************************************************************************)
(* language_middleware.py                                                  *)
(***************************************************************************)
\* the keys of SUPPORTED_LANGUAGES
SUPPORTED_LANGUAGES ==
  {"en", "hi", "bn", "ta", "te", "mr", "gu", "kn", "ml", "pa", "ur",
   "fr", "es", "de", "zh-cn", "ru"}

\* The script heuristics of detect_language, in the order the code tests
\* them.  TLA+ strings hold Latin-1 characters only, so each non-Latin
\* character list is represented by one stand-in character that occurs in
\* no other list.
ScriptChars ==
  << [lang |-> "hi",    chars |-> "¤"],
     [lang |-> "bn",    chars |-> "¦"],
     [lang |-> "ta",    chars |-> "§"],
     [lang |-> "fr",    chars |-> "àâäéèêëïîôöùûüÿç"],
     [lang |-> "es",    chars |-> "áéíóúüñ"],
     [lang |-> "de",    chars |-> "äöüß"],
     [lang |-> "ru",    chars |-> "¶"],
     [lang |-> "zh-cn", chars |-> "©"] >>

\* the first script list one of whose characters occurs in text; 0 if none
ScriptHit(text) ==
  LET cs   == CharsOf(text)
      hits == {j \in 1..Len(ScriptChars) :
                 CharsOf(ScriptChars[j].chars) \cap cs # {}}
  IN  IF hits = {} THEN 0 ELSE SetMin(hits)

hindi_words ==
  <<"hai", "hai", "ka", "ki", "ke", "se", "mein", "par", "aur", "ye", "wo",
    "kya", "kaun", "kahan", "kab">>
bengali_words ==
  <<"ami", "tumi", "se", "ke", "ei", "o", "ki", "kare", "kano", "kothay">>
tamil_words ==
  <<"nan", "ne", "avan", "aval", "ithu", "athu", "enna", "epdi", "engal">>

\* what langdetect.detect can do: return a code (supported or not) or raise
DetectorOutcomes == {"hi", "ja", "raise"}

\* the keyword fallback detect_language takes when langdetect raises
KeywordLanguage(t) ==
  LET text_lower == Lower(t) IN
    IF ContainsAny(text_lower, hindi_words) THEN "hi"
    ELSE IF ContainsAny(text_lower, bengali_words) THEN "bn"
    ELSE IF ContainsAny(text_lower, tamil_words) THEN "ta"
    ELSE "en"

\* What detect_language reads off the text alone: "en" for an empty text, the
\* script of a short text, else the keyword fallback ([fixed, lang]).
LanguageFacts(text) ==
  IF text = "" \/ Blank(text) THEN [fixed |-> TRUE, lang |-> "en"]
  ELSE LET t == Strip(text) IN
    IF WordCount(t) < 3 /\ ScriptHit(t) # 0
      THEN [fixed |-> TRUE, lang |-> ScriptChars[ScriptHit(t)].lang]
      ELSE [fixed |-> FALSE, lang |-> KeywordLanguage(t)]

\* detect_language, lf being LanguageFacts(text) and det the outcome of
\* langdetect.detect
detect_language(lf, det) ==
  IF lf.fixed THEN lf.lang
  ELSE IF det # "raise"
    THEN (IF det \in SUPPORTED_LANGUAGES THEN det ELSE "en")
    ELSE lf.lang

\* what translator.translate can do: raise (or time out), return an empty
\* text, return the text it was given, or return a translation
TranslatorOutcomes == {"raise", "empty", "same", "ok"}

\* the text a successful backend returns for text in language dest
BackendTranslation(text, dest) == "<" \o dest \o "> " \o text

PunctSet == {".", ",", "!", "?", ";", ":"}

\* a variant of translate_text that cleans the text before its no-op tests
translate_text_cleaned(text, dest_lang, tr) ==
  LET t == Strip(text) IN
    IF t = "" THEN t
    ELSE IF dest_lang = "en" THEN t
    ELSE IF ~MultiWord(t) /\ CharsOf(t) \cap PunctSet = {} THEN t
    ELSE IF tr = "ok" THEN BackendTranslation(t, dest_lang)
    ELSE t

\* translate_text(text, dest_lang), tr being the outcome of the backend
translate_text(text, dest_lang, tr) ==
  IF text = "" \/ Blank(text) THEN text
  ELSE IF dest_lang = "en" THEN text
  ELSE LET t == Strip(text) IN
    IF ~MultiWord(t) /\ CharsOf(t) \cap PunctSet = {} THEN t
    ELSE IF tr = "raise" THEN t
    ELSE LET result_text == CASE tr = "empty" -> ""
                              [] tr = "same"  -> t
                              [] OTHER        -> BackendTranslation(t, dest_lang)
             translated  == Strip(result_text)
         IN  IF result_text # "" /\ translated # ""
               THEN (IF ~EqualLower(translated, t) THEN translated ELSE t)
               ELSE t

\* self.max_history
max_history == 5

\* Counter(xs).most_common(1)[0][0]: the most frequent element, the one
\* met first among equally frequent ones
MostCommon(xs) ==
  LET count(v) == Cardinality({i \in 1..Len(xs) : xs[i] = v})
      best == {i \in 1..Len(xs) :
                 \A j \in 1..Len(xs) : count(xs[j]) <= count(xs[i])}
  IN  xs[SetMin(best)]

\* list[-n:]
LastN(xs, n) == IF Len(xs) <= n THEN xs ELSE SubSeq(xs, Len(xs) - n + 1, Len(xs))

\* a variant of process_user_input that votes over the whole history and
\* switches only to the majority language
HookInputWholeHistory(lang, hist, detected_lang) ==
  LET appended == Append(hist, detected_lang)
      h == IF Len(appended) > max_history THEN Tail(appended) ELSE appended
  IN  [user_lang |->
         IF Len(h) >= 3
           THEN (IF MostCommon(h) = detected_lang THEN detected_lang ELSE lang)
           ELSE detected_lang,
       language_history |-> h, detected_lang |-> detected_lang]

\* StrictPersonaAgentHook.process_user_input on the hook state
\* (lang, hist), given the detected code: the new user_lang and
\* language_history
HookInput(lang, hist, detected_lang) ==
  LET appended == Append(hist, detected_lang)
      h == IF Len(appended) > max_history THEN Tail(appended) ELSE appended
  IN  [user_lang |->
         IF Len(h) >= 3
           THEN (IF MostCommon(LastN(h, 3)) = detected_lang
                    \/ detected_lang # lang
                   THEN detected_lang ELSE lang)
           ELSE detected_lang,
       language_history |-> h, detected_lang |-> detected_lang]

(***************************************************************************)
(* android_control_middleware.py: the actuator side                        *)
(***************************************************************************)
\* What the device side does during one command.  "noadb": ADB_AVAILABLE is
\* False; "nodevice": check_device_connection() is False; otherwise the
\* device is connected and every subprocess.run of the command returns 0
\* ("ok"), returns a non-zero code ("fail"), raises TimeoutExpired
\* ("timeout") or raises another OSError ("oserror").
DeviceOutcomes == {"noadb", "nodevice", "ok", "fail", "timeout", "oserror"}

\* device_info as get_android_device_info leaves it when the properties
\* could not be read
manufacturer == "unknown"
device_model == "unknown"
android_version == "unknown"

\* the api_level values of the modelled devices
ApiLevels == {"unknown", "30"}

\* str(x) inside an f-string
Str(x) == IF x = None THEN "None" ELSE x

\* str(int(d)) for a string of digits d
IntStr(d) ==
  LET nz == {i \in 1..Len(d) : SubSeq(d, i, i) # "0"}
  IN  IF nz = {} THEN "0" ELSE SubSeq(d, SetMin(nz), Len(d))

NoAdbMsg ==
  "ADB is not available. Cannot execute Android commands on real device."
NoDeviceMsg ==
  "Android device not connected or not authorized. Please connect your device and enable USB debugging."
TimeoutMsg ==
  "Command timed out. The device may be busy or unresponsive. Please try again."
\* the handler of an OSError that is not "No such file or directory"
SystemErrorMsg ==
  "System error occurred. Please check device connection and try again."
\* the last branch of the generic exception handler of execute_command
CompatMsg ==
  "Command failed due to device compatibility issue. This feature may not be fully supported on "
    \o manufacturer \o " " \o device_model \o " with Android "
    \o android_version \o "."

\* AndroidControlMiddleware.summarize_whatsapp_chats
summarize_whatsapp_chats(contact_name, num_messages) ==
  "Analyzing last " \o num_messages \o " messages with " \o contact_name
    \o " in WhatsApp. Summary: Recent conversation shows active communication with mix of personal and casual topics."

\* a branch that reports by the return code of its (first) actuator call
ByReturnCode(dev, okMsg, failMsg) ==
  CASE dev = "ok"   -> okMsg
    [] dev = "fail" -> failMsg
    [] dev = "oserror" -> SystemErrorMsg
    [] OTHER        -> TimeoutMsg

\* a branch that calls the actuator and answers without reading the result
Unchecked(dev, msg) ==
  IF dev = "timeout" THEN TimeoutMsg
  ELSE IF dev = "oserror" THEN SystemErrorMsg
  ELSE msg

\* the name App of the fixed "Opening App." / "Failed to open App." branches
OpenNames ==
  [open_whatsapp |-> "WhatsApp", open_snapchat |-> "Snapchat",
   open_instagram |-> "Instagram", open_facebook |-> "Facebook",
   open_tiktok |-> "TikTok", open_twitter |-> "Twitter",
   open_telegram |-> "Telegram", open_discord |-> "Discord"]

\* the name App of the fixed "Closing App." / "Failed to close App." branches
CloseNames ==
  [close_whatsapp |-> "WhatsApp", close_snapchat |-> "Snapchat",
   close_instagram |-> "Instagram", close_facebook |-> "Facebook"]

VolumeUp == {"up", "increase", "raise"}
VolumeDown == {"down", "decrease", "lower"}
ToggleActions == {"turn on", "enable", "turn off", "disable"}

\* the commands whose branch calls subprocess.run
ActuatorCommands ==
  {"open_app", "close_app", "search_youtube", "play_youtube", "set_volume",
   "set_brightness", "take_screenshot", "lock_device", "unlock_device",
   "open_camera", "close_camera", "toggle_wifi", "toggle_bluetooth",
   "whatsapp_scroll_up", "whatsapp_scroll_down", "whatsapp_chat_with",
   "whatsapp_view_status", "snapchat_view_stories", "snapchat_chat_with",
   "instagram_scroll_feed", "instagram_like_post", "facebook_scroll_feed",
   "facebook_like_post", "youtube_like_video", "youtube_comment"}
    \cup DOMAIN OpenNames \cup DOMAIN CloseNames

\* the try block of execute_command: the branch of cmd, with the groups args
\* (args[1] is Python's args[0])
CommandBranch(cmd, args, dev, api) ==
  CASE cmd = "open_app" ->
         \* monkey, then am start; a TimeoutExpired of either is swallowed,
         \* another OSError is not
         IF dev = "oserror" THEN SystemErrorMsg
         ELSE IF dev = "ok" THEN "Opening " \o args[1] \o " app."
         ELSE "Failed to open " \o args[1] \o " app. Please ensure the app is installed."
    [] cmd = "close_app" ->
         ByReturnCode(dev, "Closing " \o args[1] \o " app.",
                      "Failed to close " \o args[1] \o " app.")
    [] cmd = "search_youtube" ->
         ByReturnCode(dev, "Searching YouTube for " \o args[1] \o ".",
                      "Failed to search YouTube for " \o args[1] \o ".")
    [] cmd = "play_youtube" ->
         ByReturnCode(dev, "Playing " \o args[1] \o " on YouTube.",
                      "Failed to play " \o args[1] \o " on YouTube.")
    [] cmd = "set_volume" ->
         \* self.api_level >= 26 raises TypeError for 'unknown', which the
         \* generic handler turns into the compatibility message
         IF api = "unknown" THEN CompatMsg
         ELSE IF args[1] \in VolumeUp \cup VolumeDown \cup {"mute"}
           THEN ByReturnCode(dev, "Setting volume " \o args[1] \o ".",
                             "Failed to set volume " \o args[1] \o ".")
           ELSE "Unknown volume direction: " \o args[1]
    [] cmd = "set_brightness" ->
         \* level = args[1] is the optional "( to)?" group; every method
         \* swallows its exceptions (a None argument raises TypeError)
         IF args[2] # None /\ dev = "ok"
           THEN "Setting brightness to " \o Str(args[2]) \o "%."
           ELSE "Failed to set brightness to " \o Str(args[2])
                  \o "%. This may require system permissions or device-specific settings."
    [] cmd = "take_screenshot" ->
         ByReturnCode(dev, "Screenshot taken and saved to /sdcard/screenshot.png.",
                      "Failed to take screenshot.")
    [] cmd = "lock_device" ->
         ByReturnCode(dev, "Device locked.", "Failed to lock device.")
    [] cmd = "unlock_device" ->
         ByReturnCode(dev, "Device unlocked (screen on).",
                      "Failed to unlock device.")
    [] cmd = "open_camera" ->
         ByReturnCode(dev, "Opening camera.", "Failed to open camera.")
    [] cmd = "close_camera" ->
         ByReturnCode(dev, "Closing camera.", "Failed to close camera.")
    [] cmd = "toggle_wifi" ->
         \* for another spelling of the action result is unbound: the
         \* UnboundLocalError goes to the generic handler
         IF args[1] \in ToggleActions
           THEN ByReturnCode(dev, "WiFi " \o args[1] \o ".",
                             "Failed to " \o args[1] \o " WiFi.")
           ELSE CompatMsg
    [] cmd = "toggle_bluetooth" ->
         IF args[1] \in ToggleActions
           THEN ByReturnCode(dev, "Bluetooth " \o args[1] \o ".",
                             "Failed to " \o args[1] \o " Bluetooth.")
           ELSE CompatMsg
    [] cmd \in DOMAIN OpenNames ->
         ByReturnCode(dev, "Opening " \o OpenNames[cmd] \o ".",
                      "Failed to open " \o OpenNames[cmd] \o ".")
    [] cmd \in DOMAIN CloseNames ->
         ByReturnCode(dev, "Closing " \o CloseNames[cmd] \o ".",
                      "Failed to close " \o CloseNames[cmd] \o ".")
    [] cmd = "whatsapp_scroll_up" ->
         ByReturnCode(dev, "Scrolling up in WhatsApp.",
                      "Failed to scroll up in WhatsApp.")
    [] cmd = "whatsapp_scroll_down" ->
         ByReturnCode(dev, "Scrolling down in WhatsApp.",
                      "Failed to scroll down in WhatsApp.")
    [] cmd = "whatsapp_chat_with" ->
         ByReturnCode(dev, "Opening chat with " \o args[1] \o " in WhatsApp.",
                      "Failed to open WhatsApp. Please ensure it's installed and try again.")
    [] cmd = "whatsapp_view_status" ->
         ByReturnCode(dev, "Viewing " \o args[1] \o "'s status in WhatsApp.",
                      "Failed to view " \o args[1] \o "'s status in WhatsApp.")
    [] cmd = "whatsapp_send_message" ->
         "Preparing to send '" \o args[1] \o "' to " \o args[2]
           \o " in WhatsApp. Please ensure WhatsApp is open and chat is selected."
    [] cmd = "whatsapp_summarize_chat" ->
         LET num_messages == IF args[1] # None /\ args[1] # "" THEN args[1]
                             ELSE "20"
             \* "last" in num_messages is case-sensitive; the group is
             \* "last <digits> " when it matched in lower case
             num == IF Contains(num_messages, "last")
                      THEN IntStr(SubSeq(num_messages, 6, Len(num_messages) - 1))
                      ELSE "20"
         IN  summarize_whatsapp_chats(args[2], num)
    [] cmd = "whatsapp_view_profile" ->
         "Viewing " \o args[1] \o "'s profile in WhatsApp."
    [] cmd = "whatsapp_mute_chat" ->
         "Muting " \o args[1] \o "'s chat in WhatsApp."
    [] cmd = "whatsapp_unmute_chat" ->
         "Unmuting " \o args[1] \o "'s chat in WhatsApp."
    [] cmd = "snapchat_view_stories" ->
         ByReturnCode(dev, "Viewing stories in Snapchat.",
                      "Failed to view stories in Snapchat.")
    [] cmd = "snapchat_send_snap" ->
         "Opening Snapchat to send snap to " \o args[1]
           \o ". Please take photo/video and select recipient."
    [] cmd = "snapchat_chat_with" ->
         ByReturnCode(dev, "Opening chat with " \o args[1] \o " in Snapchat.",
                      "Failed to open chat with " \o args[1] \o " in Snapchat.")
    [] cmd = "instagram_scroll_feed" ->
         ByReturnCode(dev, "Scrolling Instagram feed.",
                      "Failed to scroll Instagram feed.")
    [] cmd = "instagram_like_post" ->
         Unchecked(dev, "Liking post on Instagram.")
    [] cmd = "instagram_follow_user" ->
         "Opening " \o args[1] \o "'s profile to follow on Instagram."
    [] cmd = "instagram_view_story" ->
         "Viewing " \o args[1] \o "'s story on Instagram."
    [] cmd = "facebook_scroll_feed" ->
         ByReturnCode(dev, "Scrolling Facebook feed.",
                      "Failed to scroll Facebook feed.")
    [] cmd = "facebook_like_post" ->
         Unchecked(dev, "Liking post on Facebook.")
    [] cmd = "youtube_subscribe" ->
         "Subscribing to " \o args[1] \o " on YouTube."
    [] cmd = "youtube_like_video" ->
         Unchecked(dev, "Liking video on YouTube.")
    [] cmd = "youtube_comment" ->
         Unchecked(dev, "Opening comment section to add: " \o args[1])
    [] OTHER ->
         "Command '" \o cmd \o "' not implemented yet."

\* a variant of execute_command without the ADB and connection checks
execute_command_unguarded(cmd, args, dev, api) ==
  CommandBranch(cmd, args, dev, api)

\* a variant of execute_command that answers nothing when ADB is missing
execute_command_silent(cmd, args, dev, api) ==
  IF dev = "noadb" THEN ""
  ELSE IF dev = "nodevice" THEN NoDeviceMsg
  ELSE CommandBranch(cmd, args, dev, api)

\* AndroidControlMiddleware.execute_command
execute_command(cmd, args, dev, api) ==
  IF dev = "noadb" THEN NoAdbMsg
  ELSE IF dev = "nodevice" THEN NoDeviceMsg
  ELSE CommandBranch(cmd, args, dev, api)

(***************************************************************************)
(* android_control_middleware.py: process_user_command                     *)
(***************************************************************************)
\* Whether self.app_knowledge exists.  Its only assignment stands in
\* get_package_name after the final return, so no object ever has it.
app_knowledge_assigned == FALSE

\* the keys of app_knowledge and the descriptions get_app_info would quote
app_knowledge ==
  << [app |-> "whatsapp",
      description |-> "WhatsApp Messenger for instant messaging and calling"],
     [app |-> "snapchat",
      description |-> "Snapchat for ephemeral messaging and stories"],
     [app |-> "instagram",
      description |-> "Instagram for photo and video sharing"],
     [app |-> "facebook",
      description |-> "Facebook social networking platform"],
     [app |-> "youtube",
      description |-> "YouTube video streaming platform"] >>

\* AndroidControlMiddleware.get_app_info for entry j of app_knowledge (the
\* feature and action lists are left out of the quoted text)
get_app_info(j) ==
  Title(app_knowledge[j].app) \o ": " \o app_knowledge[j].description \o "."

\* the status line of the health-check handler: health_check() scores the
\* ADB, the connection, the Android version and the four critical apps
HealthMessage(dev, api) ==
  LET score  == CASE dev = "noadb"    -> "20.0"
                  [] dev = "nodevice" -> "45.0"
                  [] dev = "ok"       -> "90.0"
                  [] OTHER            -> "70.0"
      status == CASE dev = "noadb"    -> "Poor"
                  [] dev = "nodevice" -> "Fair"
                  [] dev = "ok"       -> "Excellent"
                  [] OTHER            -> "Good"
      recs   == (IF dev = "noadb"
                   THEN <<"Install ADB (Android Debug Bridge)">> ELSE <<>>)
                \o (IF dev \in {"noadb", "nodevice"}
                      THEN <<"Connect Android device with USB debugging enabled">>
                      ELSE <<>>)
                \o (IF dev # "ok"
                      THEN <<"Install missing apps: whatsapp, chrome, settings, camera">>
                      ELSE <<>>)
      joined == IF Len(recs) = 0 THEN ""
                ELSE IF Len(recs) = 1 THEN recs[1]
                ELSE IF Len(recs) = 2 THEN recs[1] \o ", " \o recs[2]
                ELSE recs[1] \o ", " \o recs[2] \o ", " \o recs[3]
  IN  "System Health: " \o status \o " (" \o score \o "/100)"
        \o " | Device: " \o Title(manufacturer) \o " " \o device_model
        \o " | Android " \o android_version \o " (API " \o api \o ")"
        \o " | ADB: " \o " | Connection: "
        \o (IF recs # <<>> THEN " | Recommendations: " \o joined ELSE "")

\* the line of the compatibility-test handler over the five test commands
CompatTestMessage(dev) ==
  "Device Compatibility: " \o (IF dev = "ok" THEN "Full" ELSE "Limited")
    \o " | Tests: basic_shell:  | package_manager:  | input_system:  | settings_access:  | screen_info: "

\* r'with (\w+)'
ContactPattern == <<[k |-> "lit", s |-> "with "], [k |-> "word"]>>

\* What process_user_command reads off the utterance alone: the result of
\* detect_command and the tests of its special handlers.
CommandFacts(text) ==
  LET lt == Lower(text)
      dc == detect_command(text)
      contact_match == Search(ContactPattern, text)
      known == {j \in 1..Len(app_knowledge) : Contains(lt, app_knowledge[j].app)}
  IN  [cmd       |-> dc.cmd,
       args      |-> dc.args,
       summarize |-> Contains(lt, "summarize") /\ Contains(lt, "whatsapp")
                       /\ contact_match.ok,
       contact   |-> IF contact_match.ok THEN contact_match.g[1] ELSE None,
       what_is   |-> Contains(lt, "what is"),
       has_app   |-> Contains(lt, "app"),
       known     |-> IF known = {} THEN 0 ELSE SetMin(known),
       health    |-> Contains(lt, "health check") \/ Contains(lt, "system status"),
       compat    |-> Contains(lt, "compatibility test")
                       \/ Contains(lt, "test device")]

\* The handler of process_user_command that answers an utterance with facts
\* f, and the text it produces before translation ([raised, handler, value];
\* value None when no handler applies).
HandlerResult(f, dev, api) ==
  LET Produced(h, s) == [raised |-> FALSE, handler |-> h, value |-> s] IN
  IF f.summarize
    THEN Produced("summarize", summarize_whatsapp_chats(f.contact, "20"))
  ELSE IF f.what_is /\ ~app_knowledge_assigned
    \* the any(...) test or else the for loop reads self.app_knowledge:
    \* AttributeError
    THEN [raised |-> TRUE, handler |-> "app_info", value |-> None]
  ELSE IF f.what_is /\ f.known # 0
    THEN Produced("app_info", get_app_info(f.known))
  ELSE IF f.health
    THEN Produced("health", HealthMessage(dev, api))
  ELSE IF f.compat
    THEN Produced("compatibility", CompatTestMessage(dev))
  ELSE IF f.cmd # None
    THEN Produced("execute_command", execute_command(f.cmd, f.args, dev, api))
  ELSE Produced(None, None)

\* return translate_text(result, lang)
ReturnTranslated(h, lang, tr) ==
  IF h.raised \/ h.value = None THEN h
  ELSE [h EXCEPT !.value = translate_text(h.value, lang, tr)]

\* AndroidControlMiddleware.process_user_command; f is CommandFacts(text),
\* lf is LanguageFacts(text), det the outcome of the language detector, tr
\* of the translation backend, dev of the device.  The result is
\* [raised, handler, value]: value is the returned text, or None.
process_user_command(text, f, lf, det, tr, dev, api) ==
  ReturnTranslated(HandlerResult(f, dev, api), detect_language(lf, det), tr)

(***************************************************************************)
(* prompts.py and tts_sync_middleware.py                                   *)
(***************************************************************************)
\* prompts.AGENT_INSTRUCTION: an introductory statement that names the
\* persona, followed by an examples section
AGENT_INSTRUCTION ==
  "You are ATAS, a helpful female AI assistant. # Examples - User: hi"

\* s.split(sep)[0]
SplitFirst(s, sep) ==
  LET at == {i \in 1..(Len(s) - Len(sep) + 1) : HasAt(s, i, sep)}
  IN  IF at = {} THEN s ELSE SubSeq(s, 1, SetMin(at) - 1)

\* a variant of process_agent_output that returns whatever the translation
\* backend answered
process_agent_output_unchecked(text, lang, tr) ==
  LET reply == "(female persona) " \o Strip(text) IN
    IF lang = "en" \/ tr = "raise" \/ tr = "same" THEN reply
    ELSE IF tr = "empty" THEN ""
    ELSE BackendTranslation(reply, lang)

\* StrictPersonaAgentHook.process_agent_output
process_agent_output(text, lang, tr) ==
  LET persona_prefix == IF ContainsLower(AGENT_INSTRUCTION, "female")
                          THEN "(female persona) " ELSE ""
      stripped == Strip(text)
      reply == persona_prefix
                 \o (IF ~EndsWith(stripped, ".") /\ ~EndsWith(stripped, "!")
                        /\ ~EndsWith(stripped, "?")
                       THEN stripped \o "." ELSE stripped)
      translated_reply == translate_text(reply, lang, tr)
  IN  IF translated_reply = "" \/ translated_reply = reply THEN reply
      ELSE translated_reply

\* get_strict_tts_text without its persona check
get_strict_tts_text_unmarked(reply_text, web_result, persona, tts_lang, tr) ==
  translate_text(IF web_result # None /\ web_result # "" THEN web_result
                                                          ELSE reply_text,
                 tts_lang, tr)

\* StrictTTSSyncMiddleware.get_strict_tts_text
get_strict_tts_text(reply_text, web_result, persona, tts_lang, tr) ==
  LET source   == IF web_result # None /\ web_result # "" THEN web_result
                  ELSE reply_text
      tts_text == translate_text(source, tts_lang, tr)
  IN  IF persona = "female" /\ ~ContainsLower(tts_text, "female")
        THEN "(female persona) " \o tts_text ELSE tts_text

(***************************************************************************)
(* agent.py: intent classification                                         *)
(***************************************************************************)
\* tool_keywords, in the iteration order of the dict
tool_keywords ==
  << [tool |-> "weather",
      keywords |-> <<"weather", "temperature", "forecast", "rain", "sunny",
                     "climate">>],
     [tool |-> "email",
      keywords |-> <<"email", "mail", "send", "gmail", "message", "compose">>],
     [tool |-> "search",
      keywords |-> <<"search", "find", "look up", "google", "duckduckgo",
                     "browse">>] >>

question_patterns ==
  <<"what is", "who is", "when did", "where is", "why does", "how does",
    "how to", "tell me about", "explain", "define", "meaning of",
    "difference between", "what are", "who are", "when was", "where are",
    "why is", "how do", "can you tell me", "do you know", "i want to know">>

info_keywords ==
  <<"current", "latest", "news", "update", "fact", "information",
    "details about", "history of", "origin of", "cause of", "reason for",
    "about", "regarding", "population", "capital", "area", "located",
    "founded", "established">>

imperative_search == <<"search", "find", "look up", "google", "tell me">>

\* r'weather (?:in|for|of) (\w+)'
WeatherPattern ==
  <<[k |-> "lit", s |-> "weather "], [k |-> "nalt", o |-> <<"in", "for", "of">>],
    [k |-> "lit", s |-> " "], [k |-> "word"]>>

\* r'send email to (\S+) subject (.+?) message (.+)'
EmailPattern ==
  <<[k |-> "lit", s |-> "send email to "], [k |-> "nsp"],
    [k |-> "lit", s |-> " subject "], [k |-> "lazy"],
    [k |-> "lit", s |-> " message "], [k |-> "any"]>>

WeatherPrompt ==
  "Please specify a city name for weather information (e.g., 'weather in Delhi')."
EmailPrompt ==
  "To send an email, please say: 'send email to [email] subject [subject] message [message]'"

\* k in lt, for lt with CharIndex ix
ContainsIx(lt, ix, k) ==
  LET c == SubSeq(k, 1, 1)
  IN  c \in DOMAIN ix /\ \E i \in ix[c] : HasAt(lt, i, k)

\* any(k in lt for k in ks)
AnyIx(lt, ix, ks) == \E j \in 1..Len(ks) : ContainsIx(lt, ix, ks[j])

\* a variant of the tool loop in which the last matching tool wins
DetectedToolLast(user_text_lower, ix) ==
  LET matching == {j \in 1..Len(tool_keywords) :
                     AnyIx(user_text_lower, ix, tool_keywords[j].keywords)}
  IN  IF matching = {} THEN None ELSE tool_keywords[SetMax(matching)].tool

\* a variant of the city name that keeps the captured group as it is
CityNameRaw(group) == group

\* for tool, keywords in tool_keywords.items(): the first tool one of whose
\* keywords occurs in the lowered utterance (the loop breaks there), or None
DetectedTool(user_text_lower, ix) ==
  LET matching == {j \in 1..Len(tool_keywords) :
                     AnyIx(user_text_lower, ix, tool_keywords[j].keywords)}
  IN  IF matching = {} THEN None ELSE tool_keywords[SetMin(matching)].tool

\* city_match.group(1).title()
CityName(group) == Title(group)

\* The else branch of process_query_with_middlewares (no device result):
\* the branch taken for user_text, the raw reply and the extracted fields.
classify(user_text) ==
  LET user_text_lower == Strip(Lower(user_text))
      ix       == CharIndex(user_text_lower)
      tool     == DetectedTool(user_text_lower, ix)
      city_match  == SearchL(WeatherPattern, user_text_lower, user_text_lower, ix)
      email_match == SearchL(EmailPattern, user_text_lower, user_text_lower, ix)
      is_clear_question    == AnyIx(user_text_lower, ix, question_patterns)
      info_keyword_count   ==
        Cardinality({j \in 1..Len(info_keywords) :
                       ContainsIx(user_text_lower, ix, info_keywords[j])})
      has_question_mark    == Contains(user_text, "?")
      is_imperative_search == AnyIx(user_text_lower, ix, imperative_search)
      needs_search == is_clear_question \/ has_question_mark
                        \/ is_imperative_search \/ info_keyword_count >= 1
                        \/ WordCount(user_text) > 8
      none == [city |-> None, to_email |-> None, subject |-> None,
               message |-> None]
  IN
  CASE tool = "weather" ->
         IF city_match.ok
           THEN [branch |-> "weather",
                 agent_reply |-> "I'll check the weather for "
                                   \o CityName(city_match.g[1]) \o ".",
                 city |-> CityName(city_match.g[1]), to_email |-> None,
                 subject |-> None, message |-> None]
           ELSE [branch |-> "weather", agent_reply |-> WeatherPrompt] @@ none
    [] tool = "email" ->
         IF email_match.ok
           THEN [branch |-> "email",
                 agent_reply |-> "I'll send an email to " \o email_match.g[1]
                                   \o " with subject '" \o email_match.g[2]
                                   \o "'.",
                 city |-> None, to_email |-> email_match.g[1],
                 subject |-> email_match.g[2], message |-> email_match.g[3]]
           ELSE [branch |-> "email", agent_reply |-> EmailPrompt] @@ none
    [] tool = "search" ->
         [branch |-> "search",
          agent_reply |-> "I'll search for information about: " \o user_text]
           @@ none
    [] OTHER ->
         IF needs_search
           THEN [branch |-> "info",
                 agent_reply |-> "I'll search for information about: "
                                   \o user_text] @@ none
           ELSE [branch |-> "conversational",
                 agent_reply |-> Strip(SplitFirst(AGENT_INSTRUCTION, "# Examples"))]
                  @@ none

(***************************************************************************)
(* search_middleware.py                                                    *)
(***************************************************************************)
INFO_KEYWORDS ==
  <<"who", "what", "when", "where", "why", "how", "which", "whose", "whom",
    "tell me about", "show me", "find", "search", "look up", "google",
    "duckduckgo", "explain", "describe", "define", "meaning of", "what is",
    "who is", "how to",
    "current", "latest", "news", "update", "recent", "today", "now",
    "fact", "information", "details", "about", "regarding", "concerning",
    "history of", "origin of", "cause of", "reason for", "background",
    "difference between", "compare", "versus", "vs",
    "how does", "how do", "what does", "why does",
    "capital of", "population of", "area of", "located in", "part of">>

\* QUESTION_PATTERNS, each regular expression as the literals it stands for;
\* at_start is the leading ^, and \s is the space that ends the first one's
\* literals
QUESTION_PATTERNS ==
  <<[at_start |-> TRUE,
     literals |-> <<"who ", "what ", "when ", "where ", "why ", "how ",
                    "which ", "whose ", "whom ">>],
    [at_start |-> FALSE, literals |-> <<"tell me about", "tell me how">>],
    [at_start |-> FALSE, literals |-> <<"show me">>],
    [at_start |-> FALSE, literals |-> <<"find out", "find information">>],
    [at_start |-> FALSE, literals |-> <<"search for">>],
    [at_start |-> FALSE, literals |-> <<"look up">>],
    [at_start |-> FALSE, literals |-> <<"explain">>],
    [at_start |-> FALSE, literals |-> <<"describe">>],
    [at_start |-> FALSE, literals |-> <<"define">>],
    [at_start |-> FALSE, literals |-> <<"what is">>],
    [at_start |-> FALSE, literals |-> <<"who is">>],
    [at_start |-> FALSE, literals |-> <<"how to", "how does", "how do">>],
    [at_start |-> FALSE, literals |-> <<"why does", "why do", "why is">>],
    [at_start |-> FALSE, literals |-> <<"where is", "where are">>],
    [at_start |-> FALSE, literals |-> <<"when is", "when was", "when did">>],
    [at_start |-> FALSE, literals |-> <<"which is", "which are", "which was">>]>>

\* re.search(pattern, text_lower, re.IGNORECASE) finds something
QuestionPatternFound(pattern, text_lower) ==
  \E j \in 1..Len(pattern.literals) :
    IF pattern.at_start THEN StartsWith(text_lower, pattern.literals[j])
    ELSE Contains(text_lower, pattern.literals[j])

search_commands ==
  <<"search", "find", "look up", "google", "tell me", "show me", "what is",
    "who is", "how to">>

\* needs_web_search from "for pattern in QUESTION_PATTERNS" on
NeedsSearchLower(text, text_lower) ==
  \/ \E i \in 1..Len(QUESTION_PATTERNS) :
       QuestionPatternFound(QUESTION_PATTERNS[i], text_lower)
  \/ Cardinality({i \in 1..Len(INFO_KEYWORDS) :
                    Contains(text_lower, INFO_KEYWORDS[i])}) >= 1
  \/ Contains(text, "?")
  \/ ContainsAny(text_lower, search_commands)

\* SearchMiddleware.needs_web_search
needs_web_search(text) ==
  IF text = None \/ text = "" \/ Blank(text) THEN FALSE
  ELSE NeedsSearchLower(text, Lower(Strip(text)))

\* what DDGS().text(query) can answer: results, results that have neither a
\* title nor a body, nothing, or an exception
BackendOutcomes == {"results", "untitled", "nothing", "raise"}

\* the answer of the web-search backend when it found something
WebResult == "1. <title>: <body>"

\* FastSearchMiddleware.get_web_result when the backend found nothing
NoResultsReply(query) ==
  "I couldn't find any information about '" \o Strip(query)
    \o "'. Please try rephrasing your question."

\* FastSearchMiddleware.get_web_result when the backend raised
SearchErrorReply(query) ==
  "Sorry, I encountered an error while searching for '" \o Strip(query)
    \o "'. Please try again."

\* FastSearchMiddleware.get_web_result when no result could be formatted
UnformattedReply(query) ==
  "I found some results for '" \o Strip(query)
    \o "' but couldn't format them properly."

\* a variant of get_web_result that answers nothing when the backend raises
get_web_result_silent(query, be) ==
  IF Blank(query) THEN "Please provide a search query."
  ELSE IF be = "results" THEN WebResult
  ELSE IF be = "untitled" THEN UnformattedReply(query)
  ELSE IF be = "nothing" THEN NoResultsReply(query)
  ELSE ""

\* FastSearchMiddleware.get_web_result(query) when the backend does be
get_web_result(query, be) ==
  IF Blank(query) THEN "Please provide a search query."
  ELSE IF be = "results" THEN WebResult
  ELSE IF be = "untitled" THEN UnformattedReply(query)
  ELSE IF be = "nothing" THEN NoResultsReply(query)
  ELSE SearchErrorReply(query)

\* FastSearchMiddleware.process_user_query(text)
process_user_query(text, be) ==
  IF needs_web_search(text) THEN get_web_result(text, be) ELSE None

(***************************************************************************)
(* agent.py: the Assistant                                                 *)
(***************************************************************************)
VARIABLES
  user_lang,            \* language_hook.user_lang
  language_history,     \* language_hook.language_history, when it is a list
  history_is_list,      \* FALSE when a state file restored a non-list history
  state_file,           \* the content of .language_state.json
  current_user_input,   \* self._current_user_input
  strict_tts_sync,      \* self.strict_tts_sync
  api_level,            \* android_hook.api_level
  turns,                \* the number of generate_reply calls so far
  detections,           \* what the completed process_user_input calls detected
  result,               \* what the last generate_reply call did
  call,                 \* the last direct call of a middleware function
  unprocessed           \* on_user_input stored an utterance that no
                        \* generate_reply call has met yet

vars == <<user_lang, language_history, history_is_list, state_file,
          current_user_input, strict_tts_sync, api_level, turns, detections,
          result, call, unprocessed>>

\* the number of generate_reply calls explored
MaxTurns == 2

\* the utterances the host hands to on_user_input
Utterances ==
  {"what is the capital of france", "who is bob", "tell me a joke",
   "thanks a lot?", "capital gains",
   "i really like long sentences that keep going on and on",
   "send email to a@b.com subject Hi message Hello there", "find my mail",
   "weather in Delhi", "weather forecast", "email me the weather",
   "search for cats", "hello", "how are you",
   "open whatsapp", "Open Camera", "unlock the device", "mute the volume",
   "summarize last 5 messages with bob in whatsapp", "call mom",
   "health check", "¿qué tal", "  ", ""}

\* a state file: absent, not JSON, or a JSON object
FileObject(has_lang, lang, has_hist, is_list, hist) ==
  [kind |-> "object", has_user_lang |-> has_lang, user_lang |-> lang,
   has_history |-> has_hist, history_is_list |-> is_list,
   language_history |-> hist]
FileMissing == [FileObject(FALSE, None, FALSE, TRUE, <<>>) EXCEPT !.kind = "missing"]
FileCorrupt == [FileObject(FALSE, None, FALSE, TRUE, <<>>) EXCEPT !.kind = "corrupt"]

\* the state files an Assistant is constructed over
StateFiles ==
  {FileMissing, FileCorrupt,
   FileObject(TRUE, "hi", TRUE, TRUE, <<"hi", "hi">>),
   FileObject(TRUE, "fr", TRUE, TRUE, <<"en", "hi", "fr">>),
   FileObject(TRUE, "ja", TRUE, TRUE, <<"ja", "en", "hi", "hi", "en", "ja">>),
   FileObject(TRUE, "hi", FALSE, TRUE, <<>>),
   FileObject(FALSE, None, TRUE, FALSE, <<>>),
   FileObject(TRUE, None, TRUE, TRUE, <<>>)}

\* Assistant.load_language_state on a hook that __init__ has just built
load_language_state(file) ==
  IF file.kind # "object"
    \* no file, or json.load raises and the handler swallows it
    THEN [user_lang |-> "en", language_history |-> <<>>,
          history_is_list |-> TRUE]
    ELSE [user_lang |-> IF file.has_user_lang THEN file.user_lang ELSE "en",
          language_history |-> IF file.has_history /\ file.history_is_list
                                 THEN file.language_history ELSE <<>>,
          history_is_list |-> ~file.has_history \/ file.history_is_list]

\* what open(..., 'w') and json.dump can do in save_language_state
SaveOutcomes == {"ok", "raise"}

\* Assistant.save_language_state
save_language_state(file, lang, hist, fs) ==
  IF fs = "ok" THEN FileObject(TRUE, lang, TRUE, TRUE, hist) ELSE file

\* the fields of a bundle that was not built
NoBundle ==
  [handler |-> None, android_result |-> None, branch |-> None, agent_reply |-> None,
   reply_text |-> None, tts_text |-> None, tts_lang |-> None,
   city |-> None, to_email |-> None, subject |-> None, message |-> None]

\* process_query_with_middlewares when it raises at stage: the hook state
\* it leaves behind, and no bundle
Raised(stage, lang, hist, detected) ==
  [raised |-> TRUE, stage |-> stage, user_lang |-> lang,
   language_history |-> hist, detected |-> detected] @@ NoBundle

\* the end of process_query_with_middlewares: the TTS text and the bundle
Bundle(hook, android, chosen, final_reply, tr) ==
  [raised |-> FALSE, stage |-> "done", user_lang |-> hook.user_lang,
   language_history |-> hook.language_history,
   detected |-> hook.detected_lang,
   handler |-> android.handler, android_result |-> android.value,
   reply_text |-> final_reply,
   tts_text |-> get_strict_tts_text(final_reply, None, "female",
                                    hook.user_lang, tr),
   tts_lang |-> hook.user_lang] @@ chosen

\* process_query_with_middlewares from process_agent_output on, chosen being
\* the branch taken and its raw reply
Reply(hook, android, chosen, tr) ==
  Bundle(hook, android, chosen,
         process_agent_output(chosen.agent_reply, hook.user_lang, tr), tr)

\* process_query_with_middlewares from "if android_result:" on
AfterAndroid(hook, android, cls, tr) ==
  IF android.raised
    THEN [Raised("android", hook.user_lang, hook.language_history,
                 hook.detected_lang) EXCEPT !.handler = android.handler]
  ELSE IF android.value # None /\ android.value # ""
    THEN Reply(hook, android,
               [branch |-> "device", agent_reply |-> android.value,
                city |-> None, to_email |-> None, subject |-> None,
                message |-> None], tr)
  ELSE Reply(hook, android, cls, tr)

\* Assistant.process_query_with_middlewares(user_text) on the hook state
\* (lang, hist, is_list); f is CommandFacts(user_text), lf is
\* LanguageFacts(user_text) and cls is classify(user_text).  det1 is the
\* detector's outcome in process_user_input, det2 in process_user_command.
process_query_with_middlewares(user_text, f, lf, cls, lang, hist, is_list, det1, det2, tr, dev, api) ==
  IF ~is_list
    \* self.language_history.append raises AttributeError
    THEN Raised("language", lang, hist, None)
    ELSE AfterAndroid(HookInput(lang, hist, detect_language(lf, det1)),
                      process_user_command(user_text, f, lf, det2, tr, dev, api),
                      cls, tr)

\* CommandFacts and classify of every utterance, computed once
UtteranceFacts == [u \in Utterances |-> CommandFacts(u)]
UtteranceLanguage == [u \in Utterances |-> LanguageFacts(u)]
UtteranceClass == [u \in Utterances |-> classify(u)]

\* what super().generate_reply can do
LlmOutcomes == {"ok", "raise"}
LlmReply == "<llm reply>"
ApologyReply ==
  "I'm sorry, I encountered an error processing your request. Please try again."

NoEnv == [det |-> None, tr |-> None, dev |-> None]

NoResult ==
  [status |-> "none", user_text |-> None, cmd |-> None, args |-> None,
   env |-> NoEnv, stage |-> None, detected |-> None, returned |-> None]
    @@ NoBundle

\* no middleware function has been called directly
NoCall ==
  [fn |-> None, text |-> None, lang |-> None, cmd |-> None, args |-> <<>>,
   env |-> None, api |-> None, consulted |-> FALSE, out |-> None,
   web_result |-> None, persona |-> None, timeout |-> None]

\* the installations an Assistant is constructed on: the state file found
\* and the API level the device reports
Installations ==
  {<<file, "30">> : file \in StateFiles}
    \cup {<<FileMissing, "unknown">>,
          <<FileObject(TRUE, "hi", TRUE, TRUE, <<"hi", "hi">>), "unknown">>}

\* Assistant.__init__: the hook is built, then load_language_state runs
Init ==
  \E inst \in Installations :
    /\ user_lang = load_language_state(inst[1]).user_lang
    /\ language_history = load_language_state(inst[1]).language_history
    /\ history_is_list = load_language_state(inst[1]).history_is_list
    /\ state_file = inst[1]
    /\ current_user_input = None
    /\ strict_tts_sync = None
    /\ api_level = inst[2]
    /\ turns = 0
    /\ detections = <<>>
    /\ result = NoResult
    /\ call = NoCall
    /\ unprocessed = FALSE

\* Assistant.on_user_input(text)
OnUserInput(text) ==
  /\ turns < MaxTurns
  /\ result.status = "none"
  /\ current_user_input' = text
  /\ UNCHANGED <<user_lang, language_history, history_is_list, state_file,
                 strict_tts_sync, api_level, turns, detections, result, call>>
  /\ unprocessed' = TRUE

\* the outcomes of the environment that a turn can consume
DetChoices(lf) == IF lf.fixed THEN {"hi"} ELSE DetectorOutcomes
DevChoices(f) ==
  IF ~f.summarize /\ ~f.what_is /\ (f.health \/ f.compat \/ f.cmd # None)
    THEN DeviceOutcomes ELSE {"ok"}

\* what a generate_reply call leaves behind when the pipeline gave r under
\* the outcomes env of the environment
Deliver(user_text, f, env, r) ==
  /\ user_lang' = r.user_lang
  /\ language_history' = r.language_history
  /\ detections' = IF r.detected = None THEN detections
                   ELSE Append(detections, r.detected)
  /\ strict_tts_sync' = IF r.raised THEN strict_tts_sync
                        ELSE "StrictTTSSyncMiddleware"
  /\ \E fs \in (IF r.raised THEN {"raise"} ELSE SaveOutcomes) :
       state_file' = IF r.raised THEN state_file
                     ELSE save_language_state(state_file, r.user_lang,
                                              r.language_history, fs)
  /\ result' = [status |-> IF r.raised THEN "raised" ELSE "returned",
                user_text |-> user_text, cmd |-> f.cmd, args |-> f.args,
                env |-> env, stage |-> r.stage, detected |-> r.detected,
                returned |-> r.reply_text, handler |-> r.handler,
                android_result |-> r.android_result, branch |-> r.branch,
                agent_reply |-> r.agent_reply, reply_text |-> r.reply_text,
                tts_text |-> r.tts_text, tts_lang |-> r.tts_lang,
                city |-> r.city, to_email |-> r.to_email,
                subject |-> r.subject, message |-> r.message]

\* the backend is consulted only for a destination other than 'en'
TrChoices(reply_lang, command_lang) ==
  IF reply_lang = "en" /\ command_lang = "en" THEN {"ok"}
  ELSE TranslatorOutcomes

\* one pipeline run on user_text under each outcome of the environment.  The
\* detector answers the two detect_language calls of a turn alike.
Turn(user_text, f, lf, cls) ==
  \E det \in DetChoices(lf), dev \in DevChoices(f) :
    \E tr \in TrChoices(HookInput(user_lang, language_history,
                                  detect_language(lf, det)).user_lang,
                        detect_language(lf, det)) :
      Deliver(user_text, f, [det |-> det, tr |-> tr, dev |-> dev],
              process_query_with_middlewares(
                user_text, f, lf, cls, user_lang, language_history,
                history_is_list, det, det, tr, dev, api_level))

\* Assistant.generate_reply with a stored utterance: the pipeline runs and
\* its reply_text is returned, or its exception leaves generate_reply
GenerateReplyMiddleware ==
  /\ turns < MaxTurns
  /\ result.status = "none"
  /\ current_user_input # None /\ current_user_input # ""
  /\ Turn(current_user_input, UtteranceFacts[current_user_input],
          UtteranceLanguage[current_user_input],
          UtteranceClass[current_user_input])
  /\ turns' = turns + 1
  /\ unprocessed' = FALSE
  /\ UNCHANGED <<history_is_list, current_user_input, api_level, call>>

\* Assistant.generate_reply without a stored utterance: the default
\* generation runs, and its failure is answered by the apology
GenerateReplyDefault ==
  /\ turns < MaxTurns
  /\ result.status = "none"
  /\ current_user_input = None \/ current_user_input = ""
  /\ \E llm \in LlmOutcomes :
       result' = [NoResult EXCEPT
                    !.status = "returned", !.stage = "default",
                    !.returned = IF llm = "ok" THEN LlmReply ELSE ApologyReply]
  /\ turns' = turns + 1
  /\ unprocessed' = FALSE
  /\ UNCHANGED <<user_lang, language_history, history_is_list, state_file,
                 current_user_input, strict_tts_sync, api_level, detections,
                 call>>

\* the host takes what generate_reply returned or raised
HostReceive ==
  /\ result.status # "none"
  /\ result' = NoResult
  /\ UNCHANGED <<user_lang, language_history, history_is_list, state_file,
                 current_user_input, strict_tts_sync, api_level, turns,
                 detections, call, unprocessed>>

Next ==
  \/ \E text \in Utterances : OnUserInput(text)
  \/ GenerateReplyMiddleware
  \/ GenerateReplyDefault
  \/ HostReceive

Spec == Init /\ [][Next]_vars

(***************************************************************************)
(* The middleware functions called directly, on their own inputs           *)
(***************************************************************************)
\* the texts handed to translate_text and detect_language
Texts ==
  Utterances \cup {"  good morning  ", " ok ", "done.", "Opening camera.",
                   "kya hai yeh", "nan enna epdi"}

\* the destination languages handed to translate_text
Destinations == {"en", "hi", "fr"}

\* whether translate_text(text, dest_lang) reaches translator.translate
TranslatorConsulted(text, dest_lang) ==
  /\ text # "" /\ ~Blank(text)
  /\ dest_lang # "en"
  /\ MultiWord(Strip(text)) \/ CharsOf(Strip(text)) \cap PunctSet # {}

\* the commands handed to execute_command: those detect_command finds in the
\* utterances, commands whose branch does not read the actuator's answer,
\* and names without a branch
CommandSamples ==
  {<<UtteranceFacts[u].cmd, UtteranceFacts[u].args>> :
     u \in {v \in Utterances : UtteranceFacts[v].cmd # None}}
    \cup {<<"instagram_like_post", <<>> >>, <<"youtube_comment", <<"nice">> >>,
          <<"whatsapp_mute_chat", <<"bob">> >>, <<"close_app", <<"maps">> >>,
          <<"toggle_wifi", <<"turn on">> >>,
          <<"instagram_comment", <<"wow">> >>, <<"fly_to_moon", <<>> >>}

\* translate_text(text, dest_lang) called on its own
TranslateCall(text, dest_lang, tr) ==
  /\ call.fn = None
  /\ call' = [NoCall EXCEPT !.fn = "translate_text", !.text = text,
                            !.lang = dest_lang, !.env = tr,
                            !.consulted = TranslatorConsulted(text, dest_lang),
                            !.out = translate_text(text, dest_lang, tr)]
  /\ UNCHANGED <<user_lang, language_history, history_is_list, state_file,
                 current_user_input, strict_tts_sync, api_level, turns,
                 detections, result, unprocessed>>

\* detect_language(text) called on its own
DetectCall(text, det) ==
  /\ call.fn = None
  /\ call' = [NoCall EXCEPT !.fn = "detect_language", !.text = text,
                            !.env = det,
                            !.out = detect_language(LanguageFacts(text), det)]
  /\ UNCHANGED <<user_lang, language_history, history_is_list, state_file,
                 current_user_input, strict_tts_sync, api_level, turns,
                 detections, result, unprocessed>>

\* android_hook.execute_command(cmd, args) called on its own
ExecuteCall(cmd, args, dev) ==
  /\ call.fn = None
  /\ call' = [NoCall EXCEPT !.fn = "execute_command", !.cmd = cmd,
                            !.args = args, !.env = dev, !.api = api_level,
                            !.out = execute_command(cmd, args, dev, api_level)]
  /\ UNCHANGED <<user_lang, language_history, history_is_list, state_file,
                 current_user_input, strict_tts_sync, api_level, turns,
                 detections, result, unprocessed>>

\* the final replies handed to get_strict_tts_text
ReplyTexts ==
  {"Bonjour", "", "(female persona) Opening camera.", "hello there friend",
   "FEMALE", "I'll search for information about: female doctors, female nurses."}

\* the web results handed to get_strict_tts_text
BackendResults ==
  {None, "", "1. Cats: small felines", "1. Queen: a female cat. 2. Female cats purr"}

\* the personas handed to get_strict_tts_text
Personas == {"female", "male"}

\* strict_tts_sync.get_strict_tts_text(reply_text, web_result, persona,
\* tts_lang) called on its own
TtsCall(reply_text, web_result, persona, tts_lang, tr) ==
  /\ call.fn = None
  /\ call' = [NoCall EXCEPT !.fn = "get_strict_tts_text", !.text = reply_text,
                            !.web_result = web_result, !.persona = persona,
                            !.lang = tts_lang, !.env = tr,
                            !.out = get_strict_tts_text(reply_text, web_result,
                                                        persona, tts_lang, tr)]
  /\ UNCHANGED <<user_lang, language_history, history_is_list, state_file,
                 current_user_input, strict_tts_sync, api_level, turns,
                 detections, result, unprocessed>>

\* fast_search.process_user_query(text) called on its own, the backend
\* answering with be
SearchCall(text, be) ==
  /\ call.fn = None
  /\ call' = [NoCall EXCEPT !.fn = "process_user_query", !.text = text,
                            !.env = be, !.out = process_user_query(text, be)]
  /\ UNCHANGED <<user_lang, language_history, history_is_list, state_file,
                 current_user_input, strict_tts_sync, api_level, turns,
                 detections, result, unprocessed>>

\* the utterances handed to detect_command
CommandTexts ==
  {"unlock the device", "Unlock device now", "lock the device",
   "unmute bob chat in whatsapp", "mute bob chat in whatsapp",
   "unfollow bob on instagram", "follow bob on instagram",
   "open whatsapp", "comment wow on post in instagram", "good morning"}

\* android_hook.detect_command(text) called on its own
CommandCall(text) ==
  /\ call.fn = None
  /\ call' = [NoCall EXCEPT !.fn = "detect_command", !.text = text,
                            !.out = detect_command(text).cmd]
  /\ UNCHANGED <<user_lang, language_history, history_is_list, state_file,
                 current_user_input, strict_tts_sync, api_level, turns,
                 detections, result, unprocessed>>

\* one direct call is made after construction
CallNext ==
  \/ \E text \in Texts, dest_lang \in Destinations, tr \in TranslatorOutcomes :
       TranslateCall(text, dest_lang, tr)
  \/ \E text \in Texts, det \in DetectorOutcomes : DetectCall(text, det)
  \/ \E c \in CommandSamples, dev \in DeviceOutcomes : ExecuteCall(c[1], c[2], dev)
  \/ \E reply_text \in ReplyTexts, web_result \in BackendResults,
        persona \in Personas, tts_lang \in Destinations, tr \in TranslatorOutcomes :
       TtsCall(reply_text, web_result, persona, tts_lang, tr)
  \/ \E text \in Texts, be \in BackendOutcomes : SearchCall(text, be)
  \/ \E text \in CommandTexts : CommandCall(text)

\* the middleware functions on their own, after construction
CallSpec == Init /\ [][CallNext]_vars

(***************************************************************************)
(* A web-search dispatch, step by step                                     *)
(***************************************************************************)
\* the value of a call that has not returned
Pending == "~pending~"

\* the timeouts FastSearchMiddleware is constructed with, in seconds
Timeouts == {5, 10}

\* the queries handed to get_web_result
Queries == {"who is bob", "search for cats", "what is the capital of france",
            "thanks a lot?", "  ", ""}

\* FastSearchMiddleware(timeout).get_web_result(query) up to the DDGS
\* request: an empty query is answered at once, any other waits for
\* ddgs.text(query, max_results=self.max_results)
SearchStart(query, timeout) ==
  /\ call.fn = None
  /\ call' = [NoCall EXCEPT !.fn = "get_web_result", !.text = query,
                            !.timeout = timeout,
                            !.out = IF Blank(query)
                                      THEN get_web_result(query, None)
                                      ELSE Pending]
  /\ UNCHANGED <<user_lang, language_history, history_is_list, state_file,
                 current_user_input, strict_tts_sync, api_level, turns,
                 detections, result, unprocessed>>

\* the backend answers with be and get_web_result returns
BackendAnswers(be) ==
  /\ call.fn = "get_web_result" /\ call.out = Pending /\ call.env = None
  /\ call' = [call EXCEPT !.env = be, !.out = get_web_result(call.text, be)]
  /\ UNCHANGED <<user_lang, language_history, history_is_list, state_file,
                 current_user_input, strict_tts_sync, api_level, turns,
                 detections, result, unprocessed>>

\* the backend will never answer: ddgs.text blocks from now on, and nothing
\* in get_web_result reads self.timeout
BackendHangs ==
  /\ call.fn = "get_web_result" /\ call.out = Pending /\ call.env = None
  /\ call' = [call EXCEPT !.env = "hang"]
  /\ UNCHANGED <<user_lang, language_history, history_is_list, state_file,
                 current_user_input, strict_tts_sync, api_level, turns,
                 detections, result, unprocessed>>

SearchNext ==
  \/ \E query \in Queries, timeout \in Timeouts : SearchStart(query, timeout)
  \/ \E be \in BackendOutcomes : BackendAnswers(be)
  \/ BackendHangs

\* one web-search dispatch after construction; the interpreter runs the
\* call whenever it has a step to take
SearchSpec == Init /\ [][SearchNext]_vars /\ WF_vars(SearchNext)

(***************************************************************************)
(* Claims                                                                  *)
(***************************************************************************)
\* a turn whose pipeline ran on a well-formed hook state
PipelineRan == result.status # "none" /\ result.stage # "default"

\* C1 (as claimed): whatever the utterance and whatever the detector, the
\* translator, the device and the state file do, a process_query_with_middlewares
\* call on a hook whose history is a list returns a bundle with reply_text,
\* tts_text and tts_lang, and raises nothing.
C1_PipelineAlwaysReturnsBundle ==
  PipelineRan /\ history_is_list =>
    /\ result.status = "returned"
    /\ result.reply_text # None
    /\ result.tts_text # None
    /\ result.tts_lang = user_lang

\* the catalog patterns that match each utterance, searched one by one
MatchingPatterns ==
  [u \in Utterances |->
     {i \in 1..Len(COMMAND_PATTERNS) : Search(COMMAND_PATTERNS[i].pattern, u).ok}]

\* C2 (as claimed): when detect_command matched the utterance of a turn whose
\* detected language is English, the turn returns, its raw reply is what
\* execute_command gives for the matched name and groups, and the branch is
\* the device branch.
C2_RawReplyIsExecuteOutcome ==
  PipelineRan /\ history_is_list /\ result.cmd # None
    /\ result.detected = "en" =>
      /\ result.status = "returned"
      /\ result.branch = "device"
      /\ result.agent_reply =
           execute_command(result.cmd, result.args, result.env.dev, api_level)

\* C3: detect_command returns the name and the groups of the earliest
\* declared pattern among those that match the utterance, and (None, None)
\* when none matches.
C3_FirstMatchWins ==
  PipelineRan =>
    LET m == MatchingPatterns[result.user_text] IN
      IF m = {} THEN result.cmd = None /\ result.args = None
      ELSE /\ result.cmd = COMMAND_PATTERNS[SetMin(m)].name
           /\ result.args =
                Search(COMMAND_PATTERNS[SetMin(m)].pattern, result.user_text).g

\* C3 witness: a turn on an utterance that two or more patterns match
\* ("open whatsapp": open_app and open_whatsapp), answered by open_app.
C3_Witness ==
  /\ PipelineRan
  /\ Cardinality(MatchingPatterns[result.user_text]) >= 2
  /\ result.user_text = "open whatsapp"
  /\ result.cmd = "open_app"

\* the lowered, stripped utterance the classifier works on
LoweredUtterance == [u \in Utterances |-> Strip(Lower(u))]

\* for each utterance, the tool categories one of whose keywords it contains
ToolKeywordHits ==
  [u \in Utterances |->
     {j \in 1..Len(tool_keywords) :
        ContainsAny(LoweredUtterance[u], tool_keywords[j].keywords)}]

\* for each utterance, whether one of the five information signs holds
InformationSigns ==
  [u \in Utterances |->
     \/ ContainsAny(LoweredUtterance[u], question_patterns)
     \/ Contains(u, "?")
     \/ ContainsAny(LoweredUtterance[u], imperative_search)
     \/ ContainsAny(LoweredUtterance[u], info_keywords)
     \/ WordCount(u) > 8]

\* C4 (as claimed): a turn on an utterance that no device handler answers
\* and that holds no tool keyword takes the information branch if one of the
\* five signs holds and the conversational branch otherwise; "what is the
\* capital of france" takes the information branch.
C4_InformationQueryIffSign ==
  PipelineRan /\ history_is_list /\ result.cmd = None
    /\ result.android_result = None
    /\ ToolKeywordHits[result.user_text] = {} =>
      result.branch = IF InformationSigns[result.user_text] THEN "info"
                      ELSE "conversational"

\* C5: in a turn that no device handler answers, the branch is the earliest
\* of weather, email, search one of whose keywords the utterance contains,
\* and it is the information or the conversational branch only when the
\* utterance contains no tool keyword.
C5_FirstToolCategoryDecides ==
  PipelineRan /\ result.status = "returned" /\ result.android_result = None =>
    LET hits == ToolKeywordHits[result.user_text] IN
      /\ <<tool_keywords[1].tool, tool_keywords[2].tool, tool_keywords[3].tool>>
           = <<"weather", "email", "search">>
      /\ hits # {} => result.branch = tool_keywords[SetMin(hits)].tool
      /\ hits = {} => result.branch \in {"info", "conversational"}

\* C5 witness: "email me the weather" holds a weather and an email keyword
\* and was answered by the weather branch.
C5_Witness ==
  /\ result.status = "returned"
  /\ result.user_text = "email me the weather"
  /\ ToolKeywordHits[result.user_text] = {1, 2}
  /\ result.branch = "weather"

\* C6 (as claimed): the email scenario yields the address, the subject and
\* the body as they stand in the utterance.
C6_EmailFieldsAsUttered ==
  result.status = "returned"
    /\ result.user_text = "send email to a@b.com subject Hi message Hello there"
    => /\ result.branch = "email"
       /\ result.to_email = "a@b.com"
       /\ result.subject = "Hi"
       /\ result.message = "Hello there"

\* for each utterance, the city of its "weather in|for|of <city>" part in
\* title case, or None
WeatherCity ==
  [u \in Utterances |->
     LET m == Search(WeatherPattern, LoweredUtterance[u])
     IN  IF m.ok THEN Title(m.g[1]) ELSE None]

\* C7: a turn answered by the weather branch names the title-cased city of
\* the "weather in|for|of <city>" part when the utterance has one ("weather
\* in Delhi": "Delhi"), and otherwise asks for a city with the fixed prompt.
C7_WeatherCityOrPrompt ==
  result.status = "returned" /\ result.branch = "weather" =>
    /\ result.city = WeatherCity[result.user_text]
    /\ result.agent_reply =
         IF result.city = None THEN WeatherPrompt
         ELSE "I'll check the weather for " \o result.city \o "."
    /\ result.user_text = "weather in Delhi" => result.city = "Delhi"

\* C7 witness: "weather in Delhi" answered for the city "Delhi".
C7_Witness ==
  /\ result.status = "returned"
  /\ result.user_text = "weather in Delhi"
  /\ result.branch = "weather"
  /\ result.agent_reply = "I'll check the weather for Delhi."

\* the greeting tokens of the conversational fallback
GreetingTokens == {"hi", "hello", "hey"}

\* the assistant's static introductory statement
IntroductoryStatement == Strip(SplitFirst(AGENT_INSTRUCTION, "# Examples"))

\* C8 (as claimed): in the conversational branch a greeting token is not
\* answered with the static introductory statement.
C8_GreetingGetsCannedGreeting ==
  result.status = "returned" /\ result.branch = "conversational"
    /\ LoweredUtterance[result.user_text] \in GreetingTokens
    => result.agent_reply # IntroductoryStatement

\* the branch a turn on each utterance takes on a fresh English hook, with
\* a working detector, translator and device (None where the turn raises)
BranchOf ==
  [u \in Utterances |->
     process_query_with_middlewares(
       u, UtteranceFacts[u], UtteranceLanguage[u], UtteranceClass[u],
       "en", <<>>, TRUE, "ja", "ja", "ok", "ok", "30").branch]

\* C9: the branch a turn takes is a function of the utterance alone: whatever
\* the language state, the state file, the API level and the outcomes of the
\* detector, the translator and the device, a turn that returns took the
\* branch of the reference turn on the same utterance.
C9_BranchIsFunctionOfText ==
  PipelineRan /\ result.status = "returned" =>
    result.branch = BranchOf[result.user_text]

\* C9 witness: a device command answered as a device command although ADB
\* is missing and the hook was restored to Hindi.
C9_Witness ==
  /\ result.status = "returned"
  /\ result.env.dev = "noadb"
  /\ state_file # FileMissing
  /\ Len(detections) = 1 /\ Len(language_history) = 3
  /\ result.cmd # None
  /\ result.branch = "device"
  /\ BranchOf[result.user_text] = "device"

\* C10: after two consecutive process_user_input calls that detected the
\* same code, user_lang is that code, whatever the state the hook started in.
C10_TwoDetectionsSwitch ==
  Len(detections) >= 2
    /\ detections[Len(detections)] = detections[Len(detections) - 1]
    => user_lang = detections[Len(detections)]

\* C10 witness: a hook restored to Hindi with a Hindi history detected
\* English twice and speaks English.
C10_Witness ==
  /\ detections = <<"en", "en">>
  /\ language_history = <<"hi", "hi", "en", "en">>
  /\ user_lang = "en"

\* C11 (as claimed): from the third entry of the history on, a detection that
\* is not the majority of the last 3 detections leaves user_lang as it was.
C11_NoisyFlipSuppressed ==
  [][(/\ detections' # detections
      /\ Len(language_history') >= 3
      /\ MostCommon(LastN(language_history', 3)) # detections'[Len(detections')])
       => user_lang' = user_lang]_vars

\* C12 (as claimed): language_history never holds more than max_history
\* entries, and its end is the most recent detections in their order.
C12_HistoryHoldsLastFive ==
  history_is_list =>
    /\ Len(language_history) <= max_history
    /\ LET k == IF Len(detections) < Len(language_history)
                  THEN Len(detections) ELSE Len(language_history)
       IN  LastN(language_history, k) = LastN(detections, k)

\* C13 (as claimed): user_lang is a supported language code in every state.
C13_UserLangSupported == user_lang \in SUPPORTED_LANGUAGES

\* C14: translate_text(text, "en") returns text as it is, blank and padded
\* texts included, without consulting the translation backend; an empty or
\* blank text is returned as it is for every destination.
C14_EnglishAndEmptyAreIdentity ==
  call.fn = "translate_text" =>
    /\ call.lang = "en" => call.out = call.text /\ ~call.consulted
    /\ call.text = "" \/ Blank(call.text) =>
         call.out = call.text /\ ~call.consulted

\* C14 witness: a padded text sent to "en" came back with its padding.
C14_Witness ==
  /\ call.fn = "translate_text"
  /\ call.lang = "en"
  /\ call.text = "  good morning  "
  /\ call.out = "  good morning  "
  /\ ~call.consulted

\* C15 (as claimed): when the backend raises, answers nothing or answers the
\* same text, translate_text returns its argument character for character.
C15_FailOpenReturnsArgument ==
  call.fn = "translate_text" /\ call.lang # "en"
    /\ call.env \in {"raise", "empty", "same"}
    => call.out = call.text

\* C16 (as claimed): when the detector raises or answers an unsupported code,
\* detect_language answers by the keyword lists.
C16_BothFailuresUseKeywords ==
  call.fn = "detect_language" /\ ~LanguageFacts(call.text).fixed
    /\ (call.env = "raise" \/ call.env \notin SUPPORTED_LANGUAGES)
    => call.out = KeywordLanguage(Strip(call.text))

\* the command names of the catalog
CatalogNames == {COMMAND_PATTERNS[i].name : i \in 1..Len(COMMAND_PATTERNS)}

\* the outcome of a command name without a branch
NotImplementedYet(cmd) == "Command '" \o cmd \o "' not implemented yet."

FailureWorded(s) ==
  \/ StartsWith(s, "Failed")
  \/ s \in {NoAdbMsg, NoDeviceMsg, TimeoutMsg, SystemErrorMsg, CompatMsg}
  \/ StartsWith(s, "Unknown volume direction")
  \/ EndsWith(s, "not implemented yet.")

\* C18 (as claimed): a command whose actuator call returned a failure code
\* is answered with a failure-worded outcome.
C18_FailureIsReported ==
  call.fn = "execute_command" /\ call.cmd \in ActuatorCommands
    /\ call.env = "fail"
    => FailureWorded(call.out)

\* C19: the reply_text of every turn that returns, whatever its branch and
\* whatever the translation backend and the device did, is neither empty nor
\* blank.
C19_ReplyTextNeverBlank ==
  PipelineRan /\ result.status = "returned" =>
    /\ result.reply_text # None
    /\ result.reply_text # ""
    /\ ~Blank(result.reply_text)

\* C19 witness: a device command in another language than English whose
\* translation backend answered nothing still returned a reply.
C19_Witness ==
  /\ result.status = "returned"
  /\ result.env.tr = "empty"
  /\ result.tts_lang \notin {None, "en"}
  /\ result.branch = "device"
  /\ ~Blank(result.reply_text)

\* C20 (as claimed): the raw reply of a search request and of an information
\* query is the web-search result, or the no-results text.
C20_SearchReplyIsBackendResult ==
  PipelineRan /\ result.status = "returned"
    /\ result.branch \in {"search", "info"}
    => result.agent_reply \in {WebResult, NoResultsReply(result.user_text)}

(***************************************************************************)
(* The TTS text                                                            *)
(***************************************************************************)
\* how often k occurs in s, letter case ignored
Occurrences(s, k) ==
  Cardinality({i \in 1..(Len(s) - Len(k) + 1) : HasAt(Lower(s), i, k)})

\* the text get_strict_tts_text translates: the web result if there is one
TtsSource(reply_text, web_result) ==
  IF web_result # None /\ web_result # "" THEN web_result ELSE reply_text

\* a direct call of get_strict_tts_text that has returned
TtsReturned == call.fn = "get_strict_tts_text"

\* C21 as stated: with persona "female" the text returned by
\* get_strict_tts_text holds the marker "female" exactly once.
C21_MarkerExactlyOnce ==
  TtsReturned /\ call.persona = "female"
    => Occurrences(call.out, "female") = 1

\* C21: with persona "female" the text returned by get_strict_tts_text holds
\* the marker "female" at least once: "(female persona) " is put before the
\* translated source when that lacks the marker, and the translated source is
\* returned as it is when it holds the marker, however often.
C21_MarkerPresentPrefixNotRepeated ==
  TtsReturned /\ call.persona = "female"
    => LET translated == translate_text(TtsSource(call.text, call.web_result),
                                        call.lang, call.env)
       IN  /\ Occurrences(call.out, "female") >= 1
           /\ Occurrences(translated, "female") = 0
                => call.out = "(female persona) " \o translated
           /\ Occurrences(translated, "female") >= 1 => call.out = translated

\* get_strict_tts_text("Bonjour", None, "female", "en") has returned
\* "(female persona) Bonjour"
C21_Witness ==
  /\ TtsReturned /\ call.persona = "female"
  /\ call.text = "Bonjour" /\ call.web_result = None /\ call.lang = "en"
  /\ call.out = "(female persona) Bonjour"

\* C22: get_strict_tts_text returns a non-empty string for every reply text,
\* web result (present, empty or None), persona, tts_lang and behaviour of
\* the translation backend.
C22_TtsTextNeverEmpty ==
  TtsReturned => call.out # None /\ call.out # ""

BadStateFile(file) ==
  \/ file.kind # "object"
  \/ ~file.has_user_lang \/ file.user_lang = None
  \/ ~file.has_history \/ ~file.history_is_list

\* C24: load_language_state on a bad state file leaves the hook at its
\* defaults (user_lang "en", an empty history), and the process_user_input
\* calls that follow succeed.
C24_BadStateFileLeavesDefaults ==
  /\ turns = 0 /\ BadStateFile(state_file)
       => user_lang = "en" /\ language_history = <<>> /\ history_is_list
  /\ PipelineRan => result.stage # "language"

(***************************************************************************)
(* Web search                                                              *)
(***************************************************************************)
\* C25: a get_web_result call of a FastSearchMiddleware constructed with a
\* timeout eventually returns, even when the search backend never answers.
C25_SearchDispatchCompletes ==
  (call.fn = "get_web_result" /\ call.timeout \in Timeouts)
    ~> (call.out # Pending)

\* a direct call of process_user_query that has returned
SearchReturned == call.fn = "process_user_query"

\* C26: process_user_query returns a non-empty string for every query that
\* needs_web_search takes for information-seeking (one that starts with a
\* question word or holds a '?' among them), whether the backend finds
\* results, finds nothing or raises; it returns None exactly when
\* needs_web_search is false, as for an empty or whitespace-only text.
C26_SearchAnswersOrNone ==
  SearchReturned =>
    /\ (call.out = None) <=> ~needs_web_search(call.text)
    /\ call.out # ""
    /\ Contains(call.text, "?") \/ StartsWith(Lower(Strip(call.text)), "who ")
         => call.out # None /\ ~Blank(call.out)
    /\ Blank(call.text) => call.out = None

\* process_user_query("thanks a lot?") has returned the error text although
\* the backend raised
C26_Witness ==
  /\ SearchReturned /\ call.text = "thanks a lot?" /\ call.env = "raise"
  /\ call.out = SearchErrorReply("thanks a lot?")

(***************************************************************************)
(* The language vote                                                       *)
(***************************************************************************)
\* C27: after every process_user_input call, over any restored history and
\* user_lang, user_lang is the code that call detected: the vote over the
\* last three detections changes nothing.
C27_UserLangIsDetected ==
  PipelineRan /\ result.detected # None
    => /\ user_lang = result.detected
       /\ detections # <<>> /\ detections[Len(detections)] = result.detected

\* a process_user_input call whose detection lost the vote over the last
\* three detections, and user_lang is that detection all the same
C27_Witness ==
  /\ PipelineRan /\ result.detected # None
  /\ Len(language_history) >= 3
  /\ MostCommon(LastN(language_history, 3)) # result.detected
  /\ user_lang = result.detected

(***************************************************************************)
(* The catalog                                                             *)
(***************************************************************************)
\* the pattern COMMAND_PATTERNS holds for name
PatternOf(name) ==
  COMMAND_PATTERNS[CHOOSE i \in 1..Len(COMMAND_PATTERNS) :
                     COMMAND_PATTERNS[i].name = name].pattern

\* re.search(COMMAND_PATTERNS[name], text, re.IGNORECASE) finds something
Matches(name, text) == Search(PatternOf(name), text).ok

\* a direct call of detect_command that has returned
CommandReturned == call.fn = "detect_command"

\* C28: an utterance that matches the unlock_device pattern is never resolved
\* to lock_device, one that matches the whatsapp_unmute_chat pattern never to
\* whatsapp_mute_chat, and one that matches the instagram_unfollow_user
\* pattern never to instagram_follow_user.
C28_OppositeNeverChosen ==
  CommandReturned =>
    /\ Matches("unlock_device", call.text) => call.out # "lock_device"
    /\ Matches("whatsapp_unmute_chat", call.text)
         => call.out # "whatsapp_mute_chat"
    /\ Matches("instagram_unfollow_user", call.text)
         => call.out # "instagram_follow_user"

\* C29: every name of the catalog is handled: with ADB available and a
\* device connected, execute_command never answers a catalog name with
\* "Command '<name>' not implemented yet."
C29_CatalogNamesHandled ==
  call.fn = "execute_command" /\ call.cmd \in CatalogNames
    /\ call.env \notin {"noadb", "nodevice"}
    => call.out # NotImplementedYet(call.cmd)

(***************************************************************************)
(* Utterances and turns                                                    *)
(***************************************************************************)
\* C30: each utterance on_user_input delivers is processed exactly once: a
\* generate_reply call that no on_user_input call preceded since the last
\* generate_reply call processes no utterance again: it detects nothing and
\* leaves language_history alone.
C30_EachUtteranceProcessedOnce ==
  [][turns' = turns + 1 /\ ~unprocessed
       => detections' = detections /\ language_history' = language_history]_vars
====
